---- MODULE Spec2Model ----
(***************************************************************************)
(* A model of apk_bitminer: the ByteStream cursor with its scoped readers  *)
(* (apk_bitminer/__init__.py) and the DexParser decoder built on it        *)
(* (apk_bitminer/parsing.py).                                              *)
(*                                                                         *)
(* Conventions.  A byte source is a sequence of bytes 0..255; the code's   *)
(* 0-based offset p is element p+1 of the sequence.  Text is a sequence of *)
(* one-character strings, so that slicing, replacing and substring tests   *)
(* are computed the way the code computes them.  A decode step returns a   *)
(* record whose err field is "none" or the name of the exception the code  *)
(* raises there.  The code runs its iterators through next(), so the       *)
(* semantics modelled is that of the Python 2 interpreter the iterators    *)
(* are written for.                                                        *)
(***************************************************************************)
EXTENDS Integers, Sequences, FiniteSets, TLC

VARIABLES
    pos,                \* ByteStream._file.tell(): the cursor of the stream
    scopes,             \* the ContiguousReader scopes entered and not yet left
    exited,             \* what the last ContiguousReader.__exit__ observed
    raising,            \* an exception is propagating out of the open scopes
    stream,             \* the bytes of the source a primitive read runs on
    result,             \* what the last primitive read or item decode gave
    parsers,            \* the DexParser instances constructed so far
    Item_type_ids,      \* DexParser.Item._type_ids: the parser whose Type table it is
    Item_string_ids,    \* DexParser.Item._string_ids: likewise for the String table
    junit3_descriptors, \* the list object that is find_junit3_tests' default argument
    runs,               \* the discovery runs made so far, oldest first
    document,           \* the binary manifest an AXMLParser is constructed from
    axml,               \* what AXMLParser(bytestream) left behind
    tables,             \* DexParser._ids: the CollectionReader of each item class
    readers,            \* the IterReader objects constructed, with their fields
    handles,            \* the files opened by ByteStream.__init__, each open or closed
    generator           \* the generator DexParser.parse returned, where it stands

scopeVars == <<pos, scopes, exited, raising>>

pureVars == <<stream, result>>

dexVars == <<parsers, Item_type_ids, Item_string_ids, junit3_descriptors, runs>>

restVars == <<document, axml, tables, readers, handles, generator>>

vars == <<scopeVars, pureVars, dexVars, restVars>>

(***************************************************************************)
(* Bounds of the model.                                                    *)
(***************************************************************************)
MaxStreamLen == 6

\* SpecScope: the size of the source and how deep scopes nest.
FileSize == 2

MaxDepth == 2

\* SpecValue: how many bytes follow the leading byte of an encoded value.
MaxTail == 2

(***************************************************************************)
(* Integer helpers: Python's <<, & and | on non-negative integers.         *)
(***************************************************************************)
RECURSIVE Pow2(_)
Pow2(n) == IF n = 0 THEN 1 ELSE 2 * Pow2(n - 1)

ShiftLeft(x, s) == x * Pow2(s)

RECURSIVE BitAnd(_, _)
BitAnd(a, b) ==
    IF a = 0 \/ b = 0 THEN 0
    ELSE (IF a % 2 = 1 /\ b % 2 = 1 THEN 1 ELSE 0) + 2 * BitAnd(a \div 2, b \div 2)

RECURSIVE BitOr(_, _)
BitOr(a, b) ==
    IF a = 0 THEN b
    ELSE IF b = 0 THEN a
    ELSE (IF a % 2 = 1 \/ b % 2 = 1 THEN 1 ELSE 0) + 2 * BitOr(a \div 2, b \div 2)

Min(a, b) == IF a < b THEN a ELSE b

(***************************************************************************)
(* Exceptions.  The code raises DexParser.FormatException for a bad header *)
(* and a plain Exception for an invalid LEB128 run or value tag; both are  *)
(* what the design calls a format error.  A read at the end of the source  *)
(* raises IndexError (indexing the empty read) or struct.error.            *)
(***************************************************************************)
NoError == "none"

IsFormatError(e) == e \in {"FormatException", "Exception"}

(***************************************************************************)
(* With(value, body) is body of value: a value computed once and used in   *)
(* several places, as a local variable of the code is.                     *)
(***************************************************************************)
With(value, body(_)) == body(value)

(***************************************************************************)
(* ByteStream.ContiguousReader: the primitive reads.                       *)
(***************************************************************************)

\* file.read(count) at offset p: the bytes there, fewer at the end of the
\* source; a negative count reads all that is left.
read(bytes, p, count) ==
    IF p >= Len(bytes) THEN <<>>
    ELSE IF count < 0 THEN SubSeq(bytes, p + 1, Len(bytes))
    ELSE SubSeq(bytes, p + 1, Min(p + count, Len(bytes)))

\* ContiguousReader.read_byte: self._file.read(1)[0]
read_byte(bytes, p) ==
    LET got == read(bytes, p, 1)
    IN  IF got = <<>>
        THEN [err |-> "IndexError", value |-> 0, pos |-> p]
        ELSE [err |-> NoError, value |-> got[1], pos |-> p + 1]

\* The loop of read_leb128, entered with the result and the shift so far; limit
\* is the shift at which the code gives up (35 in the code).
RECURSIVE leb128_loop(_, _, _, _, _)
leb128_loop(bytes, p, res, shift, limit) ==
    LET rb == read_byte(bytes, p)
        current == rb.value
        res2 == BitOr(res, ShiftLeft(BitAnd(current, 127), shift))
    IN  IF rb.err # NoError THEN [err |-> rb.err, value |-> 0, pos |-> rb.pos]
        ELSE IF BitAnd(current, 128) = 0
             THEN [err |-> NoError, value |-> res2, pos |-> rb.pos]
        ELSE IF shift + 7 >= limit
             THEN [err |-> "Exception", value |-> 0, pos |-> rb.pos]
        ELSE leb128_loop(bytes, rb.pos, res2, shift + 7, limit)

\* read_leb128 giving up one byte early: the shift tested against 28.
read_leb128_early(bytes, p) == leb128_loop(bytes, p, 0, 0, 28)

\* ContiguousReader.read_leb128
read_leb128(bytes, p) == leb128_loop(bytes, p, 0, 0, 35)

\* ContiguousReader.read_bytes: bytes(self._file.read(byte_count)); a short
\* read is no error.
read_bytes(bytes, p, byte_count) ==
    LET got == read(bytes, p, byte_count)
    IN  [err |-> NoError, value |-> got, pos |-> p + Len(got)]

\* An unsigned little-endian integer from a sequence of bytes.
RECURSIVE LittleEndian(_)
LittleEndian(bs) ==
    IF bs = <<>> THEN 0 ELSE bs[1] + 256 * LittleEndian(Tail(bs))

\* struct.unpack of a signed little-endian integer ("<h", "<i"): the two's
\* complement value of the bytes, the top byte carrying the sign.
struct_unpack_signed(bs) ==
    LET n == Len(bs)
        top == bs[n]
    IN  LittleEndian(SubSeq(bs, 1, n - 1))
            + (IF top >= 128 THEN top - 256 ELSE top) * Pow2(8 * (n - 1))

\* A read of a fixed-size struct field: struct.unpack raises struct.error when
\* the source holds fewer bytes than the format asks for.  The file has
\* advanced by what was read either way.
read_struct(bytes, p, size) ==
    LET got == read(bytes, p, size)
    IN  [err |-> IF Len(got) < size THEN "struct.error" ELSE NoError,
         value |-> got, pos |-> p + Len(got)]

\* struct.unpack("<H", ...): the unsigned reading of the same bytes.
read_short_unsigned(bytes, p) ==
    LET r == read_struct(bytes, p, 2)
    IN  IF r.err # NoError THEN [r EXCEPT !.value = 0]
        ELSE [r EXCEPT !.value = LittleEndian(r.value)]

\* ContiguousReader.read_short
read_short(bytes, p) ==
    LET r == read_struct(bytes, p, 2)
    IN  IF r.err # NoError THEN [r EXCEPT !.value = 0]
        ELSE [r EXCEPT !.value = struct_unpack_signed(r.value)]

\* ContiguousReader.read_int
read_int(bytes, p) ==
    LET r == read_struct(bytes, p, 4)
    IN  IF r.err # NoError THEN [r EXCEPT !.value = 0]
        ELSE [r EXCEPT !.value = struct_unpack_signed(r.value)]

\* The two's complement negation of a little-endian byte sequence: every byte
\* inverted, one added, the carry running upwards.
RECURSIVE Complement(_, _)
Complement(bs, carry) ==
    IF bs = <<>> THEN <<>>
    ELSE <<((255 - bs[1]) + carry) % 256>>
            \o Complement(Tail(bs), ((255 - bs[1]) + carry) \div 256)

\* struct.unpack("<q", ...): a signed 64-bit integer, held as its sign and the
\* little-endian bytes of its magnitude, since it does not fit the integers
\* computed with.
struct_unpack_q(bs) ==
    IF bs[Len(bs)] >= 128
        THEN [neg |-> TRUE, mag |-> Complement(bs, 1)]
        ELSE [neg |-> FALSE, mag |-> bs]

\* ContiguousReader.read_long_long
read_long_long(bytes, p) ==
    LET r == read_struct(bytes, p, 8)
    IN  IF r.err # NoError THEN [r EXCEPT !.value = 0]
        ELSE [r EXCEPT !.value = struct_unpack_q(r.value)]

\* ContiguousReader.read_float and read_double: the value is a function of the
\* 4 (8) bytes read, which is what is kept here; a floating point number is
\* outside the integers computed with.
read_raw(bytes, p, size) == read_struct(bytes, p, size)

\* ContiguousReader.read_fixed_string: struct.unpack("<%ds" % length, ...) and
\* latin-1, one character per byte, kept as the byte values.
read_fixed_string(bytes, p, length) == read_struct(bytes, p, length)

(***************************************************************************)
(* DexParser.EncodedValue                                                  *)
(***************************************************************************)
VALUE_BYTE == 0
VALUE_SHORT == 2
VALUE_CHAR == 3
VALUE_INT == 4
VALUE_LONG == 6
VALUE_FLOAT == 16
VALUE_DOUBLE == 17
VALUE_STRING == 23
VALUE_TYPE == 24
VALUE_FIELD == 25
VALUE_METHOD == 26
VALUE_ENUM == 27
VALUE_ARRAY == 28
VALUE_ANNOTATION == 29
VALUE_NULL == 30
VALUE_BOOLEAN == 31

\* [getattr(self, name) for name in dir(self) if name.startswith("VALUE_")]
VALUE_TYPES ==
    {VALUE_BYTE, VALUE_SHORT, VALUE_CHAR, VALUE_INT, VALUE_LONG, VALUE_FLOAT,
     VALUE_DOUBLE, VALUE_STRING, VALUE_TYPE, VALUE_FIELD, VALUE_METHOD,
     VALUE_ENUM, VALUE_ARRAY, VALUE_ANNOTATION, VALUE_NULL, VALUE_BOOLEAN}

\* What a branch of EncodedValue.__init__ leaves in self._value.
Decoded(kind, r) == [err |-> r.err, kind |-> kind, value |-> r.value, pos |-> r.pos]

\* The boolean branch written as the format defines it: the argument field is
\* the value and no byte is read.
EncodedValue_boolean_arg(bytes, p, value_arg) ==
    [err |-> NoError, kind |-> "boolean", value |-> (value_arg # 0), pos |-> p]

\* self._value = reader.read_bytes(value_arg) != 0: a bytes object is never
\* equal to the integer 0, whatever was read.
EncodedValue_boolean(bytes, p, value_arg) ==
    LET r == read_bytes(bytes, p, value_arg)
    IN  [err |-> NoError, kind |-> "boolean", value |-> TRUE, pos |-> r.pos]

\* DexParser.EncodedValue.__init__, decoding at offset p.  The branches are
\* tried in the order of the code's if/elif chain.
EncodedValue(bytes, p) ==
    LET lead == read_byte(bytes, p)
        arg_and_type == lead.value
        value_arg == arg_and_type \div 32
        value_type == BitAnd(arg_and_type, 31)
        q == lead.pos
    IN  IF lead.err # NoError
            THEN [err |-> lead.err, kind |-> "none", value |-> 0, pos |-> lead.pos]
        ELSE IF value_type \notin VALUE_TYPES
            THEN [err |-> "Exception", kind |-> "none", value |-> 0, pos |-> q]
        ELSE IF value_type = VALUE_BYTE /\ value_arg + 1 = 1
            THEN Decoded("byte", read_byte(bytes, q))
        ELSE IF value_type = VALUE_SHORT /\ value_arg + 1 = 2
            THEN Decoded("short", read_short(bytes, q))
        ELSE IF value_type = VALUE_INT /\ value_arg + 1 = 4
            THEN Decoded("int", read_int(bytes, q))
        ELSE IF value_type = VALUE_LONG /\ value_arg + 1 = 8
            THEN Decoded("long", read_long_long(bytes, q))
        ELSE IF value_type = VALUE_CHAR /\ value_arg + 1 = 1
            THEN Decoded("char", read_byte(bytes, q))
        ELSE IF value_type = VALUE_ENUM
            THEN LET r == read_bytes(bytes, q, value_arg + 1)
                 IN  Decoded("enum", [r EXCEPT !.value = LittleEndian(r.value)])
        ELSE IF value_type = VALUE_FLOAT /\ value_arg + 1 = 4
            THEN Decoded("float", read_raw(bytes, q, 4))
        ELSE IF value_type = VALUE_DOUBLE /\ value_arg + 1 = 8
            THEN Decoded("double", read_raw(bytes, q, 8))
        ELSE IF value_type = VALUE_STRING
            THEN Decoded("string", read_fixed_string(bytes, q, value_arg + 1))
        ELSE IF value_type = VALUE_ARRAY
            THEN [err |-> "AttributeError", kind |-> "none", value |-> 0, pos |-> q]
        ELSE IF value_type = VALUE_ANNOTATION
            THEN [err |-> "AttributeError", kind |-> "none", value |-> 0, pos |-> q]
        ELSE IF value_type = VALUE_NULL
            THEN [err |-> NoError, kind |-> "null", value |-> <<>>, pos |-> q]
        ELSE IF value_type = VALUE_BOOLEAN
            THEN EncodedValue_boolean(bytes, q, value_arg)
        ELSE Decoded("bytes", read_bytes(bytes, q, value_arg + 1))

(***************************************************************************)
(* bytes.decode('utf-8') and bytes.decode('utf-16'): the text as a         *)
(* sequence of code points, or UnicodeDecodeError.                         *)
(***************************************************************************)
IsContinuation(b) == b >= 128 /\ b <= 191

\* How many bytes the UTF-8 sequence led by b has, 0 when b leads none.
utf8_width(b) ==
    IF b < 128 THEN 1
    ELSE IF b >= 194 /\ b <= 223 THEN 2
    ELSE IF b >= 224 /\ b <= 239 THEN 3
    ELSE IF b >= 240 /\ b <= 244 THEN 4
    ELSE 0

\* The sequence of utf8_width(bs[1]) bytes at the head of bs is well formed:
\* continuation bytes follow, and no overlong form, surrogate or code point
\* above U+10FFFF is written.
utf8_well_formed(bs) ==
    LET n == utf8_width(bs[1])
    IN  /\ n > 0
        /\ Len(bs) >= n
        /\ \A i \in 2..n : IsContinuation(bs[i])
        /\ (bs[1] = 224) => bs[2] >= 160
        /\ (bs[1] = 237) => bs[2] <= 159
        /\ (bs[1] = 240) => bs[2] >= 144
        /\ (bs[1] = 244) => bs[2] <= 143

\* The code point the well-formed sequence at the head of bs writes.
utf8_code_point(bs) ==
    LET n == utf8_width(bs[1])
    IN  IF n = 1 THEN bs[1]
        ELSE IF n = 2 THEN (bs[1] % 32) * 64 + (bs[2] % 64)
        ELSE IF n = 3 THEN (bs[1] % 16) * 4096 + (bs[2] % 64) * 64 + (bs[3] % 64)
        ELSE (bs[1] % 8) * 262144 + (bs[2] % 64) * 4096 + (bs[3] % 64) * 64 + (bs[4] % 64)

RECURSIVE utf8_decode(_)
utf8_decode(bs) ==
    IF bs = <<>> THEN [err |-> NoError, text |-> <<>>]
    ELSE IF ~utf8_well_formed(bs) THEN [err |-> "UnicodeDecodeError", text |-> <<>>]
    ELSE With(utf8_decode(SubSeq(bs, utf8_width(bs[1]) + 1, Len(bs))),
              LAMBDA rest :
                  IF rest.err # NoError THEN rest
                  ELSE [rest EXCEPT !.text = <<utf8_code_point(bs)>> \o rest.text])

\* The 16-bit code units of bs, the low byte first or the high byte first.
utf16_units(bs, little) ==
    [i \in 1..(Len(bs) \div 2) |->
        IF little THEN bs[2 * i - 1] + 256 * bs[2 * i]
        ELSE 256 * bs[2 * i - 1] + bs[2 * i]]

IsHighSurrogate(u) == u >= 55296 /\ u <= 56319

IsLowSurrogate(u) == u >= 56320 /\ u <= 57343

RECURSIVE utf16_code_points(_)
utf16_code_points(units) ==
    IF units = <<>> THEN [err |-> NoError, text |-> <<>>]
    ELSE IF IsLowSurrogate(units[1]) THEN [err |-> "UnicodeDecodeError", text |-> <<>>]
    ELSE IF IsHighSurrogate(units[1])
        THEN IF Len(units) < 2 \/ ~IsLowSurrogate(units[2])
                 THEN [err |-> "UnicodeDecodeError", text |-> <<>>]
             ELSE With(utf16_code_points(SubSeq(units, 3, Len(units))),
                       LAMBDA rest :
                           IF rest.err # NoError THEN rest
                           ELSE [rest EXCEPT !.text =
                                    <<65536 + (units[1] - 55296) * 1024 + (units[2] - 56320)>>
                                        \o rest.text])
    ELSE With(utf16_code_points(Tail(units)),
              LAMBDA rest :
                  IF rest.err # NoError THEN rest
                  ELSE [rest EXCEPT !.text = <<units[1]>> \o rest.text])

\* The 'utf-16' codec: a leading byte order mark picks the order and is left
\* out of the text, without one the order is the machine's, little-endian; an
\* odd number of bytes is truncated data.
utf16_decode(bs) ==
    IF Len(bs) % 2 = 1 THEN [err |-> "UnicodeDecodeError", text |-> <<>>]
    ELSE IF Len(bs) >= 2 /\ bs[1] = 255 /\ bs[2] = 254
        THEN utf16_code_points(utf16_units(SubSeq(bs, 3, Len(bs)), TRUE))
    ELSE IF Len(bs) >= 2 /\ bs[1] = 254 /\ bs[2] = 255
        THEN utf16_code_points(utf16_units(SubSeq(bs, 3, Len(bs)), FALSE))
    ELSE utf16_code_points(utf16_units(bs, TRUE))

(***************************************************************************)
(* AXMLParser.StringItem                                                   *)
(***************************************************************************)

\* The rest of AXMLParser.StringItem.__init__ once the length has been read
\* at q: the bytes asked for, the bytes got, and the text they decode to.
StringItem_decode(bytes, q, encoding, byte_count) ==
    With(read_bytes(bytes, q, byte_count),
         LAMBDA got :
             With(IF encoding = "utf-8" THEN utf8_decode(got.value) ELSE utf16_decode(got.value),
                  LAMBDA text :
                      [err |-> text.err, encoding |-> encoding, asked |-> byte_count,
                       got |-> Len(got.value), value |-> text.text, pos |-> got.pos]))

\* AXMLParser.StringItem.__init__ at offset p.  The length is read_short, a
\* signed 16-bit integer; int(length/256) is the floor of the quotient.
StringItem_init(bytes, p) ==
    With(read_short(bytes, p),
         LAMBDA length :
             IF length.err # NoError
                 THEN [err |-> length.err, encoding |-> "none", asked |-> 0, got |-> 0,
                       value |-> <<>>, pos |-> length.pos]
             ELSE IF length.value \div 256 = length.value % 256
                 THEN StringItem_decode(bytes, length.pos, "utf-8", length.value % 256)
             ELSE StringItem_decode(bytes, length.pos, "utf-16", length.value * 2))

(***************************************************************************)
(* Text: Python's str operations used by DexParser, on sequences of        *)
(* one-character strings.                                                  *)
(***************************************************************************)

\* needle in hay
IsSubstring(needle, hay) ==
    \E i \in 0..(Len(hay) - Len(needle)) : SubSeq(hay, i + 1, i + Len(needle)) = needle

\* text.startswith(prefix)
startswith(text, prefix) ==
    Len(text) >= Len(prefix) /\ SubSeq(text, 1, Len(prefix)) = prefix

\* text.replace(a, b) for single characters a and b
replace(text, a, b) == [i \in 1..Len(text) |-> IF text[i] = a THEN b ELSE text[i]]

\* DexParser._descriptor2name: name[1:-1].replace('/', '.')
descriptor2name(name) == replace(SubSeq(name, 2, Len(name) - 1), "/", ".")

\* x in xs, for a list xs
InList(x, xs) == \E i \in 1..Len(xs) : xs[i] = x

\* set(xs)
ListSet(xs) == {xs[i] : i \in 1..Len(xs)}

(***************************************************************************)
(* Constants of DexParser.                                                 *)
(***************************************************************************)
SIZE_MAGIC_DEX == 3

SIZE_MAGIC_VERSION == 3

SIZE_SIGNATURE == 20

EXPECTED_DEX == <<100, 101, 120>>

EXPECTED_VERSION == <<48, 51, 53>>

\* 0x12345678
EXPECTED_ENDIAN_TAG == 305419896

\* list(JUNIT3_DEFAULT_DESCRIPTORS), in the order of the source; only
\* membership in it is ever used.
JUNIT3_DEFAULT_DESCRIPTORS ==
    <<<<"L", "j", "u", "n", "i", "t", "/", "f", "r", "a", "m", "e", "w", "o", "r", "k", "/", "T", "e", "s", "t", "C", "a", "s", "e", ";">>,
      <<"L", "a", "n", "d", "r", "o", "i", "d", "/", "t", "e", "s", "t", "/", "A", "c", "t", "i", "v", "i", "t", "y", "I", "n", "s", "t", "r", "u", "m", "e", "n", "t", "a", "t", "i", "o", "n", "T", "e", "s", "t", "C", "a", "s", "e", ";">>,
      <<"L", "a", "n", "d", "r", "o", "i", "d", "/", "t", "e", "s", "t", "/", "A", "c", "t", "i", "v", "i", "t", "y", "I", "n", "s", "t", "r", "u", "m", "e", "n", "t", "a", "t", "i", "o", "n", "T", "e", "s", "t", "C", "a", "s", "e", "2", ";">>,
      <<"L", "a", "n", "d", "r", "o", "i", "d", "/", "t", "e", "s", "t", "/", "A", "c", "t", "i", "v", "i", "t", "y", "T", "e", "s", "t", "C", "a", "s", "e", ";">>,
      <<"L", "a", "n", "d", "r", "o", "i", "d", "/", "t", "e", "s", "t", "/", "A", "c", "t", "i", "v", "i", "t", "y", "U", "n", "i", "t", "T", "e", "s", "t", "C", "a", "s", "e", ";">>,
      <<"L", "a", "n", "d", "r", "o", "i", "d", "/", "t", "e", "s", "t", "/", "A", "n", "d", "r", "o", "i", "d", "T", "e", "s", "t", "C", "a", "s", "e", ";">>,
      <<"L", "a", "n", "d", "r", "o", "i", "d", "/", "t", "e", "s", "t", "/", "A", "p", "p", "l", "i", "c", "a", "t", "i", "o", "n", "T", "e", "s", "t", "C", "a", "s", "e", ";">>,
      <<"L", "a", "n", "d", "r", "o", "i", "d", "/", "t", "e", "s", "t", "/", "F", "a", "i", "l", "e", "d", "T", "o", "C", "r", "e", "a", "t", "e", "T", "e", "s", "t", "s", ";">>,
      <<"L", "a", "n", "d", "r", "o", "i", "d", "/", "t", "e", "s", "t", "/", "I", "n", "s", "t", "r", "u", "m", "e", "n", "t", "a", "t", "i", "o", "n", "T", "e", "s", "t", "C", "a", "s", "e", ";">>,
      <<"L", "a", "n", "d", "r", "o", "i", "d", "/", "t", "e", "s", "t", "/", "L", "o", "a", "d", "e", "r", "T", "e", "s", "t", "C", "a", "s", "e", ";">>,
      <<"L", "a", "n", "d", "r", "o", "i", "d", "/", "t", "e", "s", "t", "/", "P", "r", "o", "v", "i", "d", "e", "r", "T", "e", "s", "t", "C", "a", "s", "e", ";">>,
      <<"L", "a", "n", "d", "r", "o", "i", "d", "/", "t", "e", "s", "t", "/", "P", "r", "o", "v", "i", "d", "e", "r", "T", "e", "s", "t", "C", "a", "s", "e", "2", ";">>,
      <<"L", "a", "n", "d", "r", "o", "i", "d", "/", "t", "e", "s", "t", "/", "S", "e", "r", "v", "i", "c", "e", "T", "e", "s", "t", "C", "a", "s", "e", ";">>,
      <<"L", "a", "n", "d", "r", "o", "i", "d", "/", "t", "e", "s", "t", "/", "S", "i", "n", "g", "l", "e", "L", "a", "u", "n", "c", "h", "A", "c", "t", "i", "v", "i", "t", "y", "T", "e", "s", "t", "C", "a", "s", "e", ";">>,
      <<"L", "a", "n", "d", "r", "o", "i", "d", "/", "t", "e", "s", "t", "/", "S", "y", "n", "c", "B", "a", "s", "e", "I", "n", "s", "t", "r", "u", "m", "e", "n", "t", "a", "t", "i", "o", "n", ";">>>>

test_annotation_descriptor == <<"L", "o", "r", "g", "/", "j", "u", "n", "i", "t", "/", "T", "e", "s", "t", ";">>

ignored_annotation_descriptor == <<"L", "o", "r", "g", "/", "j", "u", "n", "i", "t", "/", "I", "g", "n", "o", "r", "e", ";">>

test_prefix == <<"t", "e", "s", "t">>

(***************************************************************************)
(* The .dex files of the model.  A file is given by what the decoder reads *)
(* of it: its length and first eight bytes, the endian tag of its header,  *)
(* the ID tables as the sequences of records their fixed-stride entries    *)
(* unpack to (entry i of the code is element i+1), the string data by      *)
(* offset, the annotation items by offset, and the bytes of its data       *)
(* section, where class_data_offset is counted from the section's start    *)
(* and the section ends the file.  Both files lay their string data out at *)
(* the same offsets, so that an offset taken from one file's String table  *)
(* also names a string of the other file.                                  *)
(*                                                                         *)
(* K1: junit.framework.TestCase <- a.A <- a.B.  a.A declares the virtual   *)
(* methods testA and run, a.B declares testB.  The class data of a.A are   *)
(* the bytes 0..9 of the data section, those of a.B the bytes 10..16; the  *)
(* bytes that follow are data of other items, which decode as LEB128       *)
(* values as any bytes below 0x80 do.                                      *)
(* K2: b.T and a.U, both with annotated methods.  In b.T, testX carries    *)
(* Test and testY carries Test and Ignore.  In a.U, one method named testX *)
(* carries Test and another method of the same name carries Ignore.        *)
(***************************************************************************)
GoodHead == <<100, 101, 120, 10, 48, 51, 53, 0>>

K1 ==
    [length |-> 400,
     head |-> GoodHead,
     endian_tag |-> EXPECTED_ENDIAN_TAG,
     string_ids |-> <<10, 20, 30, 40, 50, 60, 70>>,
     type_ids |-> <<0, 1, 2, 6>>,
     method_ids |-> <<[name_index |-> 3], [name_index |-> 5], [name_index |-> 4]>>,
     class_defs |->
        <<[class_index |-> 1, super_class_index |-> 0, annotations_offset |-> 0,
           class_data_offset |-> 0],
          [class_index |-> 2, super_class_index |-> 1, annotations_offset |-> 0,
           class_data_offset |-> 10]>>,
     strings |->
        (10 :> <<"L", "j", "u", "n", "i", "t", "/", "f", "r", "a", "m", "e", "w", "o", "r", "k", "/", "T", "e", "s", "t", "C", "a", "s", "e", ";">> @@
         20 :> <<"L", "a", "/", "A", ";">> @@
         30 :> <<"L", "a", "/", "B", ";">> @@
         40 :> <<"t", "e", "s", "t", "A">> @@
         50 :> <<"t", "e", "s", "t", "B">> @@
         60 :> <<"r", "u", "n">> @@
         70 :> <<"L", "O", ";">>),
     directories |-> <<>>,
     annotation_sets |-> <<>>,
     annotation_items |-> <<>>,
     data |-> <<0, 0, 0, 2,  0, 1, 0,  1, 1, 0,
                0, 0, 0, 1,  2, 1, 0,
                0, 0, 0,  2, 1, 0,  0, 1, 0>>]

K2 ==
    [length |-> 400,
     head |-> GoodHead,
     endian_tag |-> EXPECTED_ENDIAN_TAG,
     string_ids |-> <<10, 20, 30, 40, 50, 60, 70>>,
     type_ids |-> <<2, 3, 0, 1, 6>>,
     method_ids |-> <<[name_index |-> 4], [name_index |-> 5], [name_index |-> 4],
                      [name_index |-> 4]>>,
     class_defs |->
        <<[class_index |-> 0, super_class_index |-> 4, annotations_offset |-> 100,
           class_data_offset |-> 0],
          [class_index |-> 1, super_class_index |-> 4, annotations_offset |-> 200,
           class_data_offset |-> 0]>>,
     strings |->
        (10 :> <<"L", "o", "r", "g", "/", "j", "u", "n", "i", "t", "/", "T", "e", "s", "t", ";">> @@
         20 :> <<"L", "o", "r", "g", "/", "j", "u", "n", "i", "t", "/", "I", "g", "n", "o", "r", "e", ";">> @@
         30 :> <<"L", "b", "/", "T", ";">> @@
         40 :> <<"L", "a", "/", "U", ";">> @@
         50 :> <<"t", "e", "s", "t", "X">> @@
         60 :> <<"t", "e", "s", "t", "Y">> @@
         70 :> <<"L", "O", ";">>),
     directories |->
        (100 :> <<[index |-> 0, annotations_offset |-> 110],
                  [index |-> 1, annotations_offset |-> 120]>> @@
         200 :> <<[index |-> 2, annotations_offset |-> 110],
                  [index |-> 3, annotations_offset |-> 130]>>),
     annotation_sets |->
        (110 :> <<111>> @@ 120 :> <<111, 121>> @@ 130 :> <<121>>),
     annotation_items |->
        (111 :> [visibility |-> 1, type_index |-> 2] @@
         121 :> [visibility |-> 1, type_index |-> 3]),
     data |-> <<0, 0, 0, 0>>]

\* K1 with its header damaged: a byte of the magic changed, the endian tag
\* changed, or the file cut short.
\* K1 with the class data of its first class past the end of the file, or
\* with its last two bytes missing, and K2 with an annotated method of its
\* first class that the Method table does not have and no ignored method in
\* its second class.
DexFile(name) ==
    CASE name = "K1" -> K1
      [] name = "K2" -> K2
      [] name = "bad_dex" -> [K1 EXCEPT !.head = <<100, 101, 121, 10, 48, 51, 53, 0>>]
      [] name = "bad_newline" -> [K1 EXCEPT !.head = <<100, 101, 120, 13, 48, 51, 53, 0>>]
      [] name = "bad_version" -> [K1 EXCEPT !.head = <<100, 101, 120, 10, 48, 51, 55, 0>>]
      [] name = "bad_zero" -> [K1 EXCEPT !.head = <<100, 101, 120, 10, 48, 51, 53, 1>>]
      [] name = "bad_tag" -> [K1 EXCEPT !.endian_tag = 2018915346]
      [] name = "bad_both" -> [K1 EXCEPT !.head = <<0, 0, 0, 0, 0, 0, 0, 0>>,
                                        !.endian_tag = 0]
      [] name = "empty" -> [K1 EXCEPT !.length = 0, !.head = <<>>]
      [] name = "cut_magic" -> [K1 EXCEPT !.length = 7,
                                         !.head = <<100, 101, 120, 10, 48, 51, 53>>]
      [] name = "cut_header" -> [K1 EXCEPT !.length = 111]
      [] name = "cut_bad" -> [K1 EXCEPT !.length = 8,
                                       !.head = <<0, 0, 0, 0, 0, 0, 0, 0>>]
      [] name = "lost_class_data" ->
            [K1 EXCEPT !.class_defs[1].class_data_offset = Len(K1.data)]
      [] name = "cut_class_data" ->
            [K1 EXCEPT !.data = SubSeq(K1.data, 1, Len(K1.data) - 2)]
      [] name = "no_super" -> [K1 EXCEPT !.class_defs[1].super_class_index = -1]
      [] name = "no_supers" -> [K1 EXCEPT !.class_defs[1].super_class_index = -1,
                                          !.class_defs[2].super_class_index = -1]
      [] name = "lost_method" ->
            [K2 EXCEPT !.directories[100][1].index = Len(K2.method_ids),
                       !.directories[200][2].annotations_offset = 0]

GoodFiles == {"K1", "K2"}

BadFiles ==
    {"bad_dex", "bad_newline", "bad_version", "bad_zero", "bad_tag", "bad_both",
     "empty", "cut_magic", "cut_header", "cut_bad"}

\* K1 with its first class, or both its classes, without a superclass.
RootedFiles == {"K1", "no_super", "no_supers"}

\* The files whose header is sound and whose classes do not all decode.
DamagedFiles == {"lost_class_data", "cut_class_data", "lost_method"}

(***************************************************************************)
(* DexParser.DexMagic and DexParser.Header                                 *)
(***************************************************************************)

\* DexMagic.__init__: the four reads, from offset 0.
DexMagic_init(f) ==
    LET dex == read_bytes(f.head, 0, SIZE_MAGIC_DEX)
        newline == read_byte(f.head, dex.pos)
        version == read_bytes(f.head, newline.pos, SIZE_MAGIC_VERSION)
        zero == read_byte(f.head, version.pos)
    IN  [err |-> IF newline.err # NoError THEN newline.err ELSE zero.err,
         dex |-> dex.value, newline |-> newline.value,
         version |-> version.value, zero |-> zero.value, pos |-> zero.pos]

\* DexMagic.validate
DexMagic_validate(magic) ==
    /\ magic.dex = EXPECTED_DEX
    /\ magic.newline = 10
    /\ magic.version = EXPECTED_VERSION
    /\ magic.zero = 0

\* The bytes Header.__init__ reads after the magic: the checksum, the
\* signature, six ints, and a (size, offset) pair of ints for each of seven
\* item classes.
HeaderRest == 4 + SIZE_SIGNATURE + 6 * 4 + 7 * 2 * 4

\* Header.__init__: read_bytes takes a short read, read_int and read_ints do
\* not, and every read is followed by one of those, so that the reads succeed
\* exactly when all the bytes are there.
Header_init(f) ==
    LET magic == DexMagic_init(f)
    IN  IF magic.err # NoError THEN [err |-> magic.err, magic |-> magic, endian_tag |-> 0]
        ELSE IF f.length < magic.pos + HeaderRest
        THEN [err |-> "struct.error", magic |-> magic, endian_tag |-> 0]
        ELSE [err |-> NoError, magic |-> magic, endian_tag |-> f.endian_tag]

\* Header.validate without its second check.
Header_validate_magic_only(header) ==
    IF ~DexMagic_validate(header.magic) THEN "FormatException" ELSE NoError

\* Header.validate: the exception it raises, if any.
Header_validate(header) ==
    IF ~DexMagic_validate(header.magic) THEN "FormatException"
    ELSE IF header.endian_tag # EXPECTED_ENDIAN_TAG THEN "FormatException"
    ELSE NoError

\* The keys of DexParser._ids after the loop of __init__ over its six item
\* classes: FieldIdItem and MethodIdItem are both names of MemberIdItem.
IdClasses ==
    {"StringIdItem", "TypeIdItem", "ProtoIdItem", "MemberIdItem", "ClassDefItem"}

\* DexParser.__init__ up to the construction of the tables: the exception
\* raised, if any, and the keys of _ids.  Constructing a CollectionReader with
\* an explicit offset reads nothing, so the loop does not fail.
DexParser_init(f) ==
    LET header == Header_init(f)
        err == IF header.err # NoError THEN header.err ELSE Header_validate(header)
    IN  [err |-> err, ids |-> IF err = NoError THEN IdClasses ELSE {}]

(***************************************************************************)
(* Lookups.  ctx names the tables a resolution goes through: ctx.parsers   *)
(* are the parsers there are, ctx.self is the parser the query runs on,    *)
(* ctx.type_ids and ctx.string_ids are the parsers whose tables the class  *)
(* attributes Item._type_ids and Item._string_ids are.                     *)
(***************************************************************************)

\* CollectionReader.__getitem__ on a table with a count.  The indices in the
\* files of the model are not negative.
getitem(table, index) ==
    IF index >= Len(table) THEN [err |-> "IndexError", value |-> 0]
    ELSE [err |-> NoError, value |-> table[index + 1]]

\* The file parser p reads.
FileOf(ctx, p) == DexFile(ctx.parsers[p].file)

\* ByteStream.parse_descriptor on the stream of parser p: the text that the
\* length prefix and the terminated byte run at data_offset decode to.
parse_descriptor(ctx, p, data_offset) == FileOf(ctx, p).strings[data_offset]

\* ByteStream.parse_method_name on the stream of the parser the query runs on:
\* the String table is that of the class attribute.
parse_method_name(ctx, method_id) ==
    LET string_id == getitem(FileOf(ctx, ctx.string_ids).string_ids, method_id.name_index)
    IN  IF string_id.err # NoError THEN [err |-> string_id.err, value |-> <<>>]
        ELSE [err |-> NoError, value |-> parse_descriptor(ctx, ctx.self, string_id.value)]

\* TypeIdItem.descriptor of an entry of the Type table of the class attribute:
\* the entry's stream is the stream of the parser that made the table.
TypeIdItem_descriptor(ctx, descriptor_index) ==
    LET string_id == getitem(FileOf(ctx, ctx.string_ids).string_ids, descriptor_index)
    IN  IF string_id.err # NoError THEN [err |-> string_id.err, value |-> <<>>]
        ELSE [err |-> NoError,
              value |-> parse_descriptor(ctx, ctx.type_ids, string_id.value)]

\* DescribableItem.descriptor of an item of the parser the query runs on.
DescribableItem_descriptor(ctx, type_index) ==
    LET type_id == getitem(FileOf(ctx, ctx.type_ids).type_ids, type_index)
        string_id == getitem(FileOf(ctx, ctx.string_ids).string_ids, type_id.value)
    IN  IF type_id.err # NoError THEN [err |-> type_id.err, value |-> <<>>]
        ELSE IF string_id.err # NoError THEN [err |-> string_id.err, value |-> <<>>]
        ELSE [err |-> NoError, value |-> parse_descriptor(ctx, ctx.self, string_id.value)]

\* The descriptor find_classes_directly_inherited_from appends for a class:
\* looked up in the tables of self._ids.
own_descriptor(ctx, class_def) ==
    LET own == FileOf(ctx, ctx.self)
        type_id == getitem(own.type_ids, class_def.class_index)
        string_id == getitem(own.string_ids, type_id.value)
    IN  IF type_id.err # NoError THEN [err |-> type_id.err, value |-> <<>>]
        ELSE IF string_id.err # NoError THEN [err |-> string_id.err, value |-> <<>>]
        ELSE [err |-> NoError, value |-> parse_descriptor(ctx, ctx.self, string_id.value)]

\* ClassDefItem.super_descriptor of class c of the parser the query runs on,
\* with the descriptor the item holds cached, the empty text for none.
\* super_type() is None for a class whose super_class_index is negative, and
\* None has no attribute descriptor.
super_descriptor(ctx, c) ==
    LET cached == ctx.parsers[ctx.self].super_descriptor[c + 1]
        class_def == FileOf(ctx, ctx.self).class_defs[c + 1]
        super_type == getitem(FileOf(ctx, ctx.type_ids).type_ids, class_def.super_class_index)
    IN  IF cached # <<>> THEN [err |-> NoError, value |-> cached]
        ELSE IF class_def.super_class_index < 0 THEN [err |-> "AttributeError", value |-> <<>>]
        ELSE IF super_type.err # NoError THEN [err |-> super_type.err, value |-> <<>>]
        ELSE TypeIdItem_descriptor(ctx, super_type.value)

\* ClassDefItem.has_direct_super_class: value is what it returns, cached what
\* the item holds afterwards.
has_direct_super_class(ctx, c, descriptors) ==
    LET class_def == FileOf(ctx, ctx.self).class_defs[c + 1]
        desc == super_descriptor(ctx, c)
        before == ctx.parsers[ctx.self].super_descriptor[c + 1]
    IN  IF class_def.super_class_index < 0
        THEN [err |-> NoError, value |-> FALSE, cached |-> before, desc |-> <<>>]
        ELSE IF desc.err # NoError
        THEN [err |-> desc.err, value |-> FALSE, cached |-> before, desc |-> <<>>]
        ELSE [err |-> NoError, value |-> desc.value \in descriptors,
              cached |-> desc.value, desc |-> desc.value]

(***************************************************************************)
(* Class data and the discovery of JUnit3 tests.                           *)
(***************************************************************************)

\* n calls of read_leb128 one after the other from offset p.
RECURSIVE read_leb128s(_, _, _)
read_leb128s(bytes, p, n) ==
    IF n = 0 THEN [err |-> NoError, value |-> <<>>, pos |-> p]
    ELSE With(read_leb128(bytes, p), LAMBDA r :
            IF r.err # NoError THEN [err |-> r.err, value |-> <<>>, pos |-> r.pos]
            ELSE [read_leb128s(bytes, r.pos, n - 1) EXCEPT !.value = <<r.value>> \o @])

\* struct.calcsize("<" + DexParser.Annotation.FORMAT), FORMAT being "ii"
Annotation_size == 2 * 4

\* ClassDefData.__init__ with the cursor at offset: the four sizes, and where
\* the reader of the virtual methods starts, which is where the cursor is
\* after the three skips of the code.
ClassDefData_init(bytes, offset) ==
    With(read_leb128s(bytes, offset, 4), LAMBDA sizes :
        IF sizes.err # NoError
        THEN [err |-> sizes.err, virtual_methods_size |-> 0, virtual_methods |-> sizes.pos]
        ELSE LET static_fields_size == sizes.value[1]
                 instance_fields_size == sizes.value[2]
                 virtual_methods_size == sizes.value[4]
             IN  [err |-> NoError, virtual_methods_size |-> virtual_methods_size,
                  virtual_methods |-> sizes.pos + Annotation_size * static_fields_size
                                        + Annotation_size * instance_fields_size
                                        + Annotation_size * virtual_methods_size])

\* EncodedMethod.__init__ with the cursor at p: index_diff and access_flags
\* (EncodedItem.__init__), then code_offset.
EncodedMethod_init(bytes, p) ==
    With(read_leb128s(bytes, p, 3), LAMBDA r :
        IF r.err # NoError THEN [err |-> r.err, index_diff |-> 0, pos |-> r.pos]
        ELSE [err |-> NoError, index_diff |-> r.value[1], pos |-> r.pos])

\* The loop of find_method_names over class_data.virtual_methods: each turn
\* decodes the next EncodedMethod at the reader's offset and yields
\* EncodedMethod.method_name of it, looked up in self._ids[MethodIdItem].
RECURSIVE virtual_method_names(_, _, _, _)
virtual_method_names(ctx, p, remaining, names) ==
    IF remaining = 0 THEN [err |-> NoError, value |-> names]
    ELSE With(EncodedMethod_init(FileOf(ctx, ctx.self).data, p), LAMBDA m :
         IF m.err # NoError THEN [err |-> m.err, value |-> names]
         ELSE With(getitem(FileOf(ctx, ctx.self).method_ids, m.index_diff), LAMBDA method_id :
         IF method_id.err # NoError THEN [err |-> method_id.err, value |-> names]
         ELSE With(parse_method_name(ctx, method_id.value), LAMBDA name :
         IF name.err # NoError THEN [err |-> name.err, value |-> names]
         ELSE virtual_method_names(ctx, m.pos, remaining - 1, Append(names, name.value)))))

\* DexParser.find_method_names: the names yielded, and the exception that ends
\* the iteration, if any.
find_method_names(ctx, class_def) ==
    With(ClassDefData_init(FileOf(ctx, ctx.self).data, class_def.class_data_offset),
         LAMBDA class_data :
            IF class_data.err # NoError THEN [err |-> class_data.err, value |-> <<>>]
            ELSE virtual_method_names(ctx, class_data.virtual_methods,
                                      class_data.virtual_methods_size, <<>>))

\* The list comprehension of find_classes_directly_inherited_from, which runs
\* to its end before the first class is yielded: has_direct_super_class of
\* every class in table order against fixed_set.  selected are the indices of
\* the classes to yield, scan is what was found of each class, and
\* super_descriptor is what the class items hold cached afterwards.  An
\* exception ends the comprehension at the class that raises it.
find_classes_directly_inherited_from(ctx, descriptors) ==
    With([c \in 0..(Len(FileOf(ctx, ctx.self).class_defs) - 1) |->
            has_direct_super_class(ctx, c, ListSet(descriptors))], LAMBDA has :
    With({c \in DOMAIN has : has[c].err # NoError}, LAMBDA raised :
        LET n == Len(FileOf(ctx, ctx.self).class_defs)
            stop == IF raised = {} THEN n ELSE CHOOSE c \in raised : \A d \in raised : c <= d
            before == ctx.parsers[ctx.self].super_descriptor
        IN  [err |-> IF raised = {} THEN NoError ELSE has[stop].err,
             selected |-> IF raised = {}
                          THEN SelectSeq([i \in 1..n |-> i - 1], LAMBDA c : has[c].value)
                          ELSE <<>>,
             scan |-> [i \in 1..stop |-> [super_descriptor |-> has[i - 1].desc,
                                          selected |-> has[i - 1].value]],
             super_descriptor |-> [i \in 1..n |-> IF i - 1 < stop THEN has[i - 1].cached
                                                  ELSE before[i]]]))

\* The package filter of find_junit3_tests: whether the class is passed over.
junit3_skipped(filters, dot_sep_name) ==
    /\ filters # <<>>
    /\ \A i \in 1..Len(filters) : ~IsSubstring(dot_sep_name, filters[i])

\* The same loops, were a class whose method names fail to decode passed over
\* and the scan carried on with the next class.
RECURSIVE junit3_classes_skipping(_, _, _, _)
junit3_classes_skipping(ctx, selected, k, acc) ==
    IF k > Len(selected) THEN acc
    ELSE With(FileOf(ctx, ctx.self).class_defs[selected[k] + 1], LAMBDA class_def :
         With(own_descriptor(ctx, class_def), LAMBDA appended :
         IF appended.err # NoError THEN [acc EXCEPT !.err = appended.err]
         ELSE With([acc EXCEPT !.descriptors = Append(@, appended.value)], LAMBDA grown :
         With(DescribableItem_descriptor(ctx, class_def.class_index), LAMBDA descriptor :
         IF descriptor.err # NoError THEN [grown EXCEPT !.err = descriptor.err]
         ELSE With(descriptor2name(descriptor.value), LAMBDA dot_sep_name :
         With(junit3_skipped(ctx.parsers[ctx.self].package_filters, dot_sep_name),
              LAMBDA skipped :
         With([grown EXCEPT !.classes = Append(@, [class |-> selected[k],
                                                   dot_sep_name |-> dot_sep_name,
                                                   kept |-> ~skipped])], LAMBDA seen :
         IF skipped THEN junit3_classes_skipping(ctx, selected, k + 1, seen)
         ELSE With(find_method_names(ctx, class_def), LAMBDA methods :
         IF methods.err # NoError THEN junit3_classes_skipping(ctx, selected, k + 1, seen)
         ELSE junit3_classes_skipping(ctx, selected, k + 1,
                 [seen EXCEPT !.out = @ \o SelectSeq(methods.value,
                                     LAMBDA method : startswith(method, test_prefix))])))))))))

\* The loops of find_junit3_tests and of find_classes_directly_inherited_from
\* from the k-th selected class on.  acc.descriptors is the list passed in as
\* it has grown, acc.out what has been yielded, acc.classes the classes the
\* package filter was applied to.
RECURSIVE junit3_classes(_, _, _, _)
junit3_classes(ctx, selected, k, acc) ==
    IF k > Len(selected) THEN acc
    ELSE With(FileOf(ctx, ctx.self).class_defs[selected[k] + 1], LAMBDA class_def :
         With(own_descriptor(ctx, class_def), LAMBDA appended :
         IF appended.err # NoError THEN [acc EXCEPT !.err = appended.err]
         ELSE With([acc EXCEPT !.descriptors = Append(@, appended.value)], LAMBDA grown :
         With(DescribableItem_descriptor(ctx, class_def.class_index), LAMBDA descriptor :
         IF descriptor.err # NoError THEN [grown EXCEPT !.err = descriptor.err]
         ELSE With(descriptor2name(descriptor.value), LAMBDA dot_sep_name :
         With(junit3_skipped(ctx.parsers[ctx.self].package_filters, dot_sep_name),
              LAMBDA skipped :
         With([grown EXCEPT !.classes = Append(@, [class |-> selected[k],
                                                   dot_sep_name |-> dot_sep_name,
                                                   kept |-> ~skipped])], LAMBDA seen :
         IF skipped THEN junit3_classes(ctx, selected, k + 1, seen)
         ELSE With(find_method_names(ctx, class_def), LAMBDA methods :
         With([seen EXCEPT !.out = @ \o SelectSeq(methods.value,
                                     LAMBDA method : startswith(method, test_prefix))],
              LAMBDA yielded :
         IF methods.err # NoError THEN [yielded EXCEPT !.err = methods.err]
         ELSE junit3_classes(ctx, selected, k + 1, yielded))))))))))

\* DexParser.find_junit3_tests, iterated until it is exhausted or raises.
find_junit3_tests(ctx, descriptors) ==
    With(find_classes_directly_inherited_from(ctx, descriptors), LAMBDA found :
    With(IF found.err # NoError
         THEN [err |-> found.err, descriptors |-> descriptors, out |-> <<>>, classes |-> <<>>]
         ELSE junit3_classes(ctx, found.selected, 1,
                 [err |-> NoError, descriptors |-> descriptors, out |-> <<>>,
                  classes |-> <<>>]), LAMBDA done :
        [err |-> done.err, descriptors |-> done.descriptors, out |-> done.out,
         classes |-> done.classes, scan |-> found.scan,
         super_descriptor |-> found.super_descriptor]))

(***************************************************************************)
(* Annotations and the discovery of JUnit4 tests.                          *)
(***************************************************************************)
RECURSIVE Flatten(_)
Flatten(lists) == IF lists = <<>> THEN <<>> ELSE Head(lists) \o Flatten(Tail(lists))

\* The turns of the two loops of get_methods_with_annotation, in order: for
\* each entry of method_annotations whose annotations_offset is not 0, each
\* entry of the AnnotationSetItem there.
annotation_entries(f, directory) ==
    Flatten([i \in 1..Len(directory) |->
        IF directory[i].annotations_offset = 0 THEN <<>>
        ELSE LET entries == f.annotation_sets[directory[i].annotations_offset]
             IN  [j \in 1..Len(entries) |->
                    [index |-> directory[i].index, annotation_offset |-> entries[j]]]])

\* The body of those loops from turn k on: parsed is _parsed_annotations as the
\* (descriptor, method name) pairs in the order they were added.
RECURSIVE parse_annotations(_, _, _, _)
parse_annotations(ctx, entries, k, parsed) ==
    IF k > Len(entries) THEN [err |-> NoError, value |-> parsed]
    ELSE With(FileOf(ctx, ctx.self).annotation_items[entries[k].annotation_offset],
              LAMBDA item :
         With(getitem(FileOf(ctx, ctx.self).method_ids, entries[k].index), LAMBDA method_id :
         IF method_id.err # NoError THEN [err |-> method_id.err, value |-> parsed]
         ELSE With(parse_method_name(ctx, method_id.value), LAMBDA method_descriptor :
         IF method_descriptor.err # NoError
         THEN [err |-> method_descriptor.err, value |-> parsed]
         ELSE With(DescribableItem_descriptor(ctx, item.type_index), LAMBDA descriptor :
         IF descriptor.err # NoError THEN [err |-> descriptor.err, value |-> parsed]
         ELSE parse_annotations(ctx, entries, k + 1,
                 Append(parsed, [descriptor |-> descriptor.value,
                                 name |-> method_descriptor.value]))))))

\* AnnotationsDirectoryItem.get_methods_with_annotation on a directory whose
\* annotations parsed to the given pairs.
get_methods_with_annotation(parsed, target_descriptor) ==
    With(SelectSeq(parsed, LAMBDA a : a.descriptor = target_descriptor), LAMBDA found :
        [i \in 1..Len(found) |-> found[i].name])

\* The package filter of find_junit4_tests: whether the class is passed over.
junit4_skipped(filters, dot_sep_name) ==
    /\ filters # <<>>
    /\ \A i \in 1..Len(filters) : ~IsSubstring(filters[i], dot_sep_name)

\* The tests find_junit4_tests yields for a class: the names that carry the
\* test annotation and are not among the ignored names.
junit4_tests(dot_sep_name, names, ignored_names) ==
    With(SelectSeq(names, LAMBDA name : ~InList(name, ignored_names)), LAMBDA kept :
        [i \in 1..Len(kept) |-> dot_sep_name \o <<"#">> \o kept[i]])

\* The loop of find_junit4_tests from the k-th class with annotations on.
RECURSIVE junit4_classes(_, _, _, _)
junit4_classes(ctx, annotated, k, acc) ==
    IF k > Len(annotated) THEN acc
    ELSE With(FileOf(ctx, ctx.self).class_defs[annotated[k] + 1], LAMBDA class_def :
         With(DescribableItem_descriptor(ctx, class_def.class_index), LAMBDA descriptor :
         IF descriptor.err # NoError THEN [acc EXCEPT !.err = descriptor.err]
         ELSE With(descriptor2name(descriptor.value), LAMBDA dot_sep_name :
         With(junit4_skipped(ctx.parsers[ctx.self].package_filters, dot_sep_name),
              LAMBDA skipped :
         With([acc EXCEPT !.classes = Append(@, [class |-> annotated[k],
                                                 dot_sep_name |-> dot_sep_name,
                                                 kept |-> ~skipped])], LAMBDA seen :
         IF skipped THEN junit4_classes(ctx, annotated, k + 1, seen)
         ELSE With(parse_annotations(ctx,
                      annotation_entries(FileOf(ctx, ctx.self),
                          FileOf(ctx, ctx.self).directories[class_def.annotations_offset]),
                      1, <<>>), LAMBDA parsed :
         IF parsed.err # NoError THEN [seen EXCEPT !.err = parsed.err]
         ELSE junit4_classes(ctx, annotated, k + 1,
                 [seen EXCEPT !.out = @ \o junit4_tests(dot_sep_name,
                     get_methods_with_annotation(parsed.value, test_annotation_descriptor),
                     get_methods_with_annotation(parsed.value,
                                                 ignored_annotation_descriptor))])))))))

\* DexParser.find_junit4_tests, iterated until it is exhausted or raises.
find_junit4_tests(ctx) ==
    With(FileOf(ctx, ctx.self).class_defs, LAMBDA class_defs :
        junit4_classes(ctx,
            SelectSeq([i \in 1..Len(class_defs) |-> i - 1],
                      LAMBDA c : class_defs[c + 1].annotations_offset # 0),
            1, [err |-> NoError, out |-> <<>>, classes |-> <<>>]))

(***************************************************************************)
(* Idle values of the state each specification leaves alone.               *)
(***************************************************************************)
NoResult == [op |-> "none"]

NoExit == [valid |-> FALSE]

ScopeIdle == pos = 0 /\ scopes = <<>> /\ exited = NoExit /\ raising = FALSE

DexIdle ==
    /\ parsers = <<>> /\ Item_type_ids = 0 /\ Item_string_ids = 0
    /\ junit3_descriptors = <<>> /\ runs = <<>>

NoAxml == [op |-> "none"]

NoGenerator == [state |-> "none"]

AxmlIdle == document = <<>> /\ axml = NoAxml

TablesIdle == tables = <<>> /\ readers = <<>>

ParseIdle == handles = <<>> /\ generator = NoGenerator

RestIdle == AxmlIdle /\ TablesIdle /\ ParseIdle

(***************************************************************************)
(* Sequences over S of length at most n.                                   *)
(***************************************************************************)
SeqUpTo(S, n) == UNION {[1..k -> S] : k \in 0..n}

(***************************************************************************)
(* SpecLeb: read_leb128 applied once at offset 0 of a source drawn from    *)
(* LebBytes, which holds bytes with and without the continuation bit and   *)
(* with different low seven bits (0x00, 0x07, 0x81, 0x87).  The low bits   *)
(* stay below 8 so that a five-byte value stays below 2^31, the largest    *)
(* integer the model checker computes with; Python's integers do not       *)
(* overflow.                                                               *)
(***************************************************************************)
LebBytes == {0, 7, 129, 135}

InitLeb ==
    /\ stream \in SeqUpTo(LebBytes, MaxStreamLen)
    /\ result = NoResult
    /\ ScopeIdle
    /\ DexIdle
    /\ RestIdle

Do_read_leb128 ==
    /\ result = NoResult
    /\ LET r == read_leb128(stream, pos)
       IN  /\ result' = [op |-> "read_leb128", start |-> pos, err |-> r.err,
                         value |-> r.value, pos |-> r.pos]
           /\ pos' = r.pos
    /\ UNCHANGED <<scopes, exited, raising, stream, dexVars, restVars>>

NextLeb == Do_read_leb128

SpecLeb == InitLeb /\ [][NextLeb]_vars

\* The number of bytes from offset p on, up to n of them, that carry the
\* continuation bit without a byte that lacks it in between.
RECURSIVE ContinuationRun(_, _, _)
ContinuationRun(bytes, p, n) ==
    IF n = 0 \/ p >= Len(bytes) \/ bytes[p + 1] < 128 THEN 0
    ELSE 1 + ContinuationRun(bytes, p + 1, n - 1)

\* sum of (byte_k & 0x7f) << (7*k) for the k+1 bytes from offset p on.
RECURSIVE LebSum(_, _, _)
LebSum(bytes, p, k) ==
    (bytes[p + k + 1] % 128) * (128 ^ k) + (IF k = 0 THEN 0 ELSE LebSum(bytes, p, k - 1))

\* C9: read_leb128 fails with a format error exactly when the first five bytes
\* it reads all carry the continuation bit; it never consumes a sixth byte; and
\* a run whose terminating byte is among the first five decodes without error
\* to the sum of (byte_k & 0x7f) << (7*k), the cursor just past the terminator.
C9_Leb128FiveBytes ==
    result.op = "read_leb128" =>
        LET p == result.start
            run == ContinuationRun(stream, p, 5)
        IN  /\ IsFormatError(result.err) <=> run = 5
            /\ result.pos - p <= 5
            /\ (run < 5 /\ p + run < Len(stream)) =>
                  /\ result.err = NoError
                  /\ result.value = LebSum(stream, p, run)
                  /\ result.pos = p + run + 1

\* C9 witness: five continuation bytes with a sixth byte behind them were read
\* and refused, the sixth byte left unread.
C9_Witness ==
    /\ result.op = "read_leb128"
    /\ Len(stream) = 6
    /\ ContinuationRun(stream, 0, 5) = 5
    /\ result.err = "Exception"
    /\ result.pos = 5

(***************************************************************************)
(* SpecScope: ContiguousReader scopes over one ByteStream.  A scope is     *)
(* created and entered by a with statement (the constructor captures       *)
(* tell(), __enter__ seeks to the offset when one is given), its body      *)
(* moves the cursor by reading and skipping and may open further scopes,   *)
(* and it is left by __exit__, which runs when the body completes and      *)
(* when it raises.  No code of the package catches an exception inside a   *)
(* scope, so a raise leaves every open scope in turn.                      *)
(***************************************************************************)
None == -1

\* ContiguousReader.__init__: the scope's fields for a stream at offset p.
ContiguousReader_init(p, offset) == [offset_on_exit |-> p, offset |-> offset]

\* ContiguousReader.__enter__: where the cursor is once the scope is entered.
ContiguousReader_enter(scope, p) == IF scope.offset # None THEN scope.offset ELSE p

\* __exit__ testing the offset for truth: offset 0 counts as no offset.
ContiguousReader_exit_truthy(scope, p) ==
    IF scope.offset # None /\ scope.offset # 0 THEN scope.offset_on_exit ELSE p

\* ContiguousReader.__exit__: where the cursor is once the scope is left.
ContiguousReader_exit(scope, p) ==
    IF scope.offset # None THEN scope.offset_on_exit ELSE p

PureIdle == stream = <<>> /\ result = NoResult

InitScope ==
    /\ pos = 0 /\ scopes = <<>> /\ exited = NoExit /\ raising = FALSE
    /\ PureIdle
    /\ DexIdle
    /\ RestIdle

\* with ByteStream.ContiguousReader(bytestream[, offset=offset]) as reader:
Enter(offset) ==
    /\ ~raising
    /\ Len(scopes) < MaxDepth
    /\ LET scope == ContiguousReader_init(pos, offset)
       IN  /\ scopes' = Append(scopes, scope)
           /\ pos' = ContiguousReader_enter(scope, pos)
    /\ UNCHANGED <<exited, raising, pureVars, dexVars, restVars>>

\* reader.read(count) and the reads built on it: the cursor advances by what
\* the source still holds.
Read(count) ==
    /\ ~raising
    /\ scopes # <<>>
    /\ pos' = (IF pos >= FileSize THEN pos ELSE Min(pos + count, FileSize))
    /\ UNCHANGED <<scopes, exited, raising, pureVars, dexVars, restVars>>

\* reader.skip(count): seek(tell() + count), past the end of the source too.
Skip(count) ==
    /\ ~raising
    /\ scopes # <<>>
    /\ pos + count <= FileSize + 1
    /\ pos' = pos + count
    /\ UNCHANGED <<scopes, exited, raising, pureVars, dexVars, restVars>>

\* The body of the innermost scope ends, by completing or (raised) by an
\* exception, and __exit__ runs.
Exit(raised) ==
    /\ scopes # <<>>
    /\ raising => raised
    /\ LET scope == scopes[Len(scopes)]
           after == ContiguousReader_exit(scope, pos)
       IN  /\ pos' = after
           /\ exited' = [valid |-> TRUE, offset |-> scope.offset,
                         before |-> scope.offset_on_exit, at_exit |-> pos,
                         after |-> after, raised |-> raised]
    /\ scopes' = SubSeq(scopes, 1, Len(scopes) - 1)
    /\ raising' = (raised /\ Len(scopes) > 1)
    /\ UNCHANGED <<pureVars, dexVars, restVars>>

NextScope ==
    \/ \E offset \in {None} \cup (0..FileSize) : Enter(offset)
    \/ \E count \in 1..2 : Read(count)
    \/ \E count \in 1..2 : Skip(count)
    \/ \E raised \in BOOLEAN : Exit(raised)

SpecScope == InitScope /\ [][NextScope]_vars

ValueTailBytes == {0, 1, 239}

ValueSources ==
    {<<>>} \cup {<<lead>> \o tail : lead \in 0..255, tail \in SeqUpTo(ValueTailBytes, MaxTail)}

InitValue ==
    /\ stream \in ValueSources
    /\ result = NoResult
    /\ ScopeIdle
    /\ DexIdle
    /\ RestIdle

Do_EncodedValue ==
    /\ result = NoResult
    /\ LET r == EncodedValue(stream, pos)
       IN  /\ result' = [op |-> "EncodedValue", start |-> pos, err |-> r.err,
                         kind |-> r.kind, value |-> r.value, pos |-> r.pos]
           /\ pos' = r.pos
    /\ UNCHANGED <<scopes, exited, raising, stream, dexVars, restVars>>

NextValue == Do_EncodedValue

SpecValue == InitValue /\ [][NextValue]_vars

\* C10 as stated: decoding a value whose type tag is boolean yields true if and
\* only if the 3-bit argument field of the leading byte is nonzero, and the
\* result is the same whatever bytes follow the leading byte.
C10_BooleanIsArgument ==
    (/\ result.op = "EncodedValue"
     /\ stream # <<>>
     /\ stream[1] % 32 = VALUE_BOOLEAN) =>
        /\ result.err = NoError
        /\ result.kind = "boolean"
        /\ result.value = (stream[1] \div 32 # 0)
        /\ \A other \in ValueSources :
              (other # <<>> /\ other[1] = stream[1]) =>
                  LET r == EncodedValue(other, 0)
                  IN  r.err = result.err /\ r.kind = result.kind /\ r.value = result.value

(***************************************************************************)
(* SpecFixed: DexParser.EncodedValue decoded once at offset 0 of a source  *)
(* whose leading byte is a short, int or long tag with any argument field, *)
(* followed by one byte fewer than the kind's width up to MaxExtra bytes   *)
(* more, or one of the sources of test_encoded_value.                      *)
(***************************************************************************)
MaxExtra == 1

FixedKinds == {VALUE_SHORT, VALUE_INT, VALUE_LONG}

FixedWidth(value_type) ==
    IF value_type = VALUE_SHORT THEN 2 ELSE IF value_type = VALUE_INT THEN 4 ELSE 8

FixedBytes(value_type) ==
    IF value_type = VALUE_SHORT THEN {0, 1, 127, 128, 190, 239, 255}
    ELSE IF value_type = VALUE_INT THEN {0, 127, 128, 255}
    ELSE {0, 128, 255}

FixedArgs(value_type) == {0, FixedWidth(value_type) - 1, 7}

TailsBetween(S, lo, hi) == UNION {[1..n -> S] : n \in lo..hi}

EncodedValueTests ==
    {<<VALUE_SHORT + 32, 239, 190>>,
     <<VALUE_INT + 96, 222, 173, 190, 239>>,
     <<VALUE_LONG + 224, 222, 173, 190, 239, 222, 173, 190, 239>>}

\* The bytes that follow a value.
ExtraBytes == {0, 255}

\* The bytes after the leading byte: one short of the width of the value, or
\* the full width and up to extra bytes more.
FixedTails(value_type, extra) ==
    [1..(FixedWidth(value_type) - 1) -> FixedBytes(value_type)] \cup
    {value \o more : value \in [1..FixedWidth(value_type) -> FixedBytes(value_type)],
                     more \in TailsBetween(ExtraBytes, 0, extra)}

FixedSources(extra) ==
    EncodedValueTests \cup
    UNION {{<<value_type + 32 * value_arg>> \o tail :
                value_arg \in FixedArgs(value_type),
                tail \in FixedTails(value_type, extra)} :
           value_type \in FixedKinds}

InitFixed ==
    /\ stream \in FixedSources(MaxExtra)
    /\ result = NoResult
    /\ ScopeIdle
    /\ DexIdle
    /\ RestIdle

NextFixed == Do_EncodedValue

SpecFixed == InitFixed /\ [][NextFixed]_vars

\* The two's complement value of little-endian bytes, from the definition: a
\* set top bit makes the value minus one minus the value of the inverted bytes.
TwosComplement(bs) ==
    IF bs[Len(bs)] >= 128
        THEN (-1) - LittleEndian([i \in 1..Len(bs) |-> 255 - bs[i]])
        ELSE LittleEndian(bs)

\* The bytes of a + b + carry, byte by byte, the carry out as the last element.
RECURSIVE AddBytes(_, _, _)
AddBytes(a, b, carry) ==
    IF a = <<>> THEN <<carry>>
    ELSE <<(a[1] + b[1] + carry) % 256>>
            \o AddBytes(Tail(a), Tail(b), (a[1] + b[1] + carry) \div 256)

\* v, a sign and magnitude, is the two's complement value of the 8 bytes bs:
\* a clear top bit and the magnitude is the bytes; a set one and magnitude
\* plus bytes is 2^64.
IsTwosComplement64(v, bs) ==
    IF bs[8] < 128
        THEN v = [neg |-> FALSE, mag |-> bs]
        ELSE /\ v.neg
             /\ Len(v.mag) = 8
             /\ \A i \in 1..8 : v.mag[i] \in 0..255
             /\ AddBytes(v.mag, bs, 0) = <<0, 0, 0, 0, 0, 0, 0, 0, 1>>

\* The decode C11 is about: a short, int or long tag whose argument field is the
\* kind's width less one, with at least that many bytes behind it.
FixedCase ==
    /\ result.op = "EncodedValue"
    /\ stream # <<>>
    /\ stream[1] % 32 \in FixedKinds
    /\ stream[1] \div 32 + 1 = FixedWidth(stream[1] % 32)
    /\ Len(stream) >= 1 + FixedWidth(stream[1] % 32)

\* C11: decoding a short, int or long whose argument count is the kind's width
\* (2, 4, 8) yields the two's complement signed little-endian value of exactly
\* that many following bytes, whatever comes after them, and leaves the cursor
\* 1 + width bytes past where decoding started.
C11_FixedWidthSigned ==
    FixedCase =>
        LET value_type == stream[1] % 32
            width == FixedWidth(value_type)
            following == SubSeq(stream, 2, 1 + width)
        IN  /\ result.err = NoError
            /\ result.pos = result.start + 1 + width
            /\ pos = result.pos
            /\ result.kind = (IF value_type = VALUE_SHORT THEN "short"
                              ELSE IF value_type = VALUE_INT THEN "int" ELSE "long")
            /\ IF value_type = VALUE_LONG
                   THEN IsTwosComplement64(result.value, following)
                   ELSE result.value = TwosComplement(following)
            /\ (stream = <<VALUE_SHORT + 32, 239, 190>>) => result.value = 48879 - 65536
            /\ (stream = <<VALUE_INT + 96, 222, 173, 190, 239>>) => result.value = -272716322

\* A negative short, a negative int and a negative long have each been decoded
\* from a source with a byte to spare.
C11_Witness ==
    /\ FixedCase
    /\ Len(stream) > 1 + FixedWidth(stream[1] % 32)
    /\ stream[1 + FixedWidth(stream[1] % 32)] >= 128
    /\ stream[1] % 32 = VALUE_LONG
    /\ result.value.neg
    /\ result.value.mag # SubSeq(stream, 2, 9)

(***************************************************************************)
(* SpecString: AXMLParser.StringItem decoded once at offset 0 of a source  *)
(* that is two length bytes followed by up to MaxPayload bytes.            *)
(***************************************************************************)
MaxPayload == 4

StringLengthBytes == {0, 1, 2, 3, 255}

StringPayloadBytes == {0, 65, 169, 195, 216}

StringSources(longest) ==
    {<<>>, <<2>>} \cup
    {<<lo, hi>> \o payload :
        lo \in StringLengthBytes, hi \in StringLengthBytes,
        payload \in SeqUpTo(StringPayloadBytes, longest)}

InitString ==
    /\ stream \in StringSources(MaxPayload)
    /\ result = NoResult
    /\ ScopeIdle
    /\ DexIdle
    /\ RestIdle

Do_StringItem ==
    /\ result = NoResult
    /\ With(StringItem_init(stream, pos),
            LAMBDA r :
                /\ result' = [op |-> "StringItem", start |-> pos, err |-> r.err,
                              encoding |-> r.encoding, asked |-> r.asked, got |-> r.got,
                              value |-> r.value, pos |-> r.pos]
                /\ pos' = r.pos)
    /\ UNCHANGED <<scopes, exited, raising, stream, dexVars, restVars>>

NextString == Do_StringItem

SpecString == InitString /\ [][NextString]_vars

\* The 2-byte length value of the entry at the head of the source, as the
\* signed 16-bit integer the decoder reads.
StringLength == struct_unpack_signed(SubSeq(stream, 1, 2))

\* The number of bytes C12 says the entry is decoded from.
StringBytesClaimed ==
    IF StringLength \div 256 = StringLength % 256
        THEN StringLength % 256 ELSE StringLength * 2

\* C12 as stated: an entry whose length value L has L / 256 = L % 256 is decoded
\* as UTF-8 from exactly L % 256 bytes, and every other entry as UTF-16 from
\* exactly L * 2 bytes; taken for the entries whose source holds that many
\* bytes after the length.
C12_StringEncodingAndLength ==
    (/\ result.op = "StringItem"
     /\ Len(stream) >= 2
     /\ Len(stream) - 2 >= StringBytesClaimed) =>
        /\ result.encoding =
              (IF StringLength \div 256 = StringLength % 256 THEN "utf-8" ELSE "utf-16")
        /\ result.got = StringBytesClaimed
        /\ result.pos = result.start + 2 + StringBytesClaimed

\* The entry FF FF 41 00: length -1, and the two bytes left in the source are
\* read and decoded as UTF-16.
C12_NegativeLength ==
    /\ result.op = "StringItem"
    /\ stream = <<255, 255, 65, 0>>
    /\ result.encoding = "utf-16"
    /\ result.asked = -2
    /\ result.got = 2
    /\ result.value = <<65>>

(***************************************************************************)
(* AXMLParser.  A binary manifest is taken as what the reads of the        *)
(* decoder see of it: the four words of the header that are checked, and   *)
(* the tokens of the tag stream, each with the first word of its envelope  *)
(* and, for a tag, the texts its string indices resolve to.  A text that   *)
(* is only compared is a string; a text that is taken apart is a sequence  *)
(* of one-character strings.  A value that may be None is a record with    *)
(* the field present.                                                      *)
(***************************************************************************)
XML_END_DOC_TAG == 1048833

XML_START_TAG == 1048834

XML_START_END_TAG == 1048835

START_NS == 1048832

END_NS == 1048833

EXPECTED_TAG == 524291

EXPECTED_STRING_TAG == 1835009

EXPECTED_RESOURCE_TAG == 524672

Absent == [present |-> FALSE]

Some(v) == [present |-> TRUE, value |-> v]

HexDigits == <<"0", "1", "2", "3", "4", "5", "6", "7", "8", "9", "a", "b", "c", "d", "e", "f">>

UpperHexDigits == <<"0", "1", "2", "3", "4", "5", "6", "7", "8", "9", "A", "B", "C", "D", "E", "F">>

\* hex(n) for n >= 0: "0x" and the digits of n, lower case, no leading zero.
RECURSIVE hex_digits(_)
hex_digits(n) ==
    IF n < 16 THEN <<HexDigits[n + 1]>>
    ELSE hex_digits(n \div 16) \o <<HexDigits[(n % 16) + 1]>>

hex(n) == <<"0", "x">> \o hex_digits(n)

\* text.split(sep) for a single character sep
RECURSIVE split(_, _)
split(text, sep) ==
    IF \A i \in 1..Len(text) : text[i] # sep THEN <<text>>
    ELSE With(CHOOSE i \in 1..Len(text) :
                  text[i] = sep /\ \A j \in 1..(i - 1) : text[j] # sep,
              LAMBDA i : <<SubSeq(text, 1, i - 1)>> \o split(SubSeq(text, i + 1, Len(text)), sep))

\* The value of a hexadecimal digit, -1 for any other character.
hex_value(c) ==
    IF \E d \in 1..16 : HexDigits[d] = c \/ UpperHexDigits[d] = c
        THEN (CHOOSE d \in 1..16 : HexDigits[d] = c \/ UpperHexDigits[d] = c) - 1
        ELSE -1

\* The same digits read in base ten.
RECURSIVE decimal_number(_, _)
decimal_number(digits, acc) ==
    IF digits = <<>> THEN acc
    ELSE decimal_number(Tail(digits), acc * 10 + hex_value(Head(digits)))

RECURSIVE hex_number(_, _)
hex_number(digits, acc) ==
    IF digits = <<>> THEN acc
    ELSE hex_number(Tail(digits), acc * 16 + hex_value(Head(digits)))

\* int(text, 16) for a text without sign or blanks: an optional 0x or 0X, then
\* at least one hexadecimal digit; anything else is a ValueError.
int16(text) ==
    With(IF Len(text) >= 2 /\ text[1] = "0" /\ text[2] \in {"x", "X"}
             THEN SubSeq(text, 3, Len(text)) ELSE text,
         LAMBDA digits :
             IF digits = <<>> \/ \E i \in 1..Len(digits) : hex_value(digits[i]) < 0
                 THEN [err |-> "ValueError", value |-> 0]
                 ELSE [err |-> NoError, value |-> hex_number(digits, 0)])

\* str(None)
NoneText == <<"N", "o", "n", "e">>

ResourceIdText == <<"r", "e", "s", "o", "u", "r", "c", "e", "I", "D", " ">>

\* AXMLParser.XMLAttr.__init__ and its properties name and value, from what
\* the attribute's five words resolve to: the text of its name, the text of
\* its value if it has a value string, and its resource id.
XMLAttr_init(raw) ==
    [name |-> raw.name,
     value |-> IF raw.val.present THEN raw.val.value
               ELSE IF raw.resourceId >= 0 THEN ResourceIdText \o hex(raw.resourceId)
               ELSE NoneText]

\* AXMLParser.XMLTag.__init__: an end tag has no attributes.
XMLTag_init(token, is_start_tag) ==
    [kind |-> "XMLTag",
     is_start_tag |-> is_start_tag,
     name |-> token.name,
     attributes |-> IF is_start_tag
                        THEN [i \in 1..Len(token.attributes) |-> XMLAttr_init(token.attributes[i])]
                        ELSE <<>>]

\* AXMLParser.NSRecord.__init__
NSRecord_init(token, is_start) == [kind |-> "NSRecord", is_start |-> is_start]

\* AXMLParser.Header.__init__ without its last check.
AXMLParser_Header_init_any_size(header) ==
    IF header.tag # EXPECTED_TAG THEN [err |-> "Exception", read |-> 1]
    ELSE IF header.string_tag # EXPECTED_STRING_TAG THEN [err |-> "Exception", read |-> 3]
    ELSE IF header.resource_tag # EXPECTED_RESOURCE_TAG
        THEN [err |-> "Exception", read |-> 10]
    ELSE [err |-> NoError, read |-> 11]

\* AXMLParser.Header.__init__: the checks, in the order they are made, and
\* the number of words read by read_int when it returns or raises.  The
\* string pool of the documents of the model has no strings and no styles,
\* so the resource-map tag is the tenth word and its size the eleventh.
AXMLParser_Header_init(header) ==
    IF header.tag # EXPECTED_TAG THEN [err |-> "Exception", read |-> 1]
    ELSE IF header.string_tag # EXPECTED_STRING_TAG THEN [err |-> "Exception", read |-> 3]
    ELSE IF header.resource_tag # EXPECTED_RESOURCE_TAG
        THEN [err |-> "Exception", read |-> 10]
    ELSE IF header.resource_chunk_size % 4 # 0 THEN [err |-> "Exception", read |-> 11]
    ELSE [err |-> NoError, read |-> 11]

\* AXMLParser.parse_items: the loop over the tokens, items being those decoded
\* so far.  The read of a first word where the source has ended fails.  read
\* is the number of tokens whose envelope was read: one for each item, and
\* one for the token the loop stopped at.
RECURSIVE parse_items(_, _)
parse_items(tokens, items) ==
    IF tokens = <<>> THEN [err |-> "struct.error", items |-> items, read |-> Len(items)]
    ELSE With(Head(tokens).first_word,
              LAMBDA first_word :
                  IF first_word \in {XML_START_TAG, XML_START_END_TAG}
                      THEN parse_items(Tail(tokens),
                               Append(items, XMLTag_init(Head(tokens), first_word = XML_START_TAG)))
                  ELSE IF first_word = XML_END_DOC_TAG
                      THEN [err |-> NoError, items |-> items, read |-> Len(items) + 1]
                  ELSE IF first_word \in {START_NS, END_NS}
                      THEN parse_items(Tail(tokens),
                               Append(items, NSRecord_init(Head(tokens), first_word = START_NS)))
                  ELSE [err |-> "Exception", items |-> items, read |-> Len(items) + 1])

\* [item for item in tag_list if isinstance(item, AXMLParser.XMLTag)]
xml_tag_list(items) == SelectSeq(items, LAMBDA item : item.kind = "XMLTag")

\* The loop with every start tag made a child of the first tag.
RECURSIVE link_tags_flat(_, _, _, _)
link_tags_flat(tags, i, current, tree) ==
    IF i > Len(tags) THEN tree
    ELSE IF tags[i].is_start_tag
        THEN link_tags_flat(tags, i + 1, 1,
                 [parent |-> [tree.parent EXCEPT ![i] = 1],
                  children |-> [tree.children EXCEPT ![1] = Append(@, i)]])
    ELSE link_tags_flat(tags, i + 1, 1, tree)

\* The loop with an end tag leaving current_tag where it is.
RECURSIVE link_tags_no_pop(_, _, _, _)
link_tags_no_pop(tags, i, current, tree) ==
    IF i > Len(tags) THEN tree
    ELSE IF tags[i].is_start_tag
        THEN link_tags_no_pop(tags, i + 1, i,
                 [parent |-> [tree.parent EXCEPT ![i] = current],
                  children |-> [tree.children EXCEPT ![current] = Append(@, i)]])
    ELSE IF tree.parent[current] = 0 THEN tree
    ELSE link_tags_no_pop(tags, i + 1, current, tree)

\* The loop of AXMLParser.__init__ over xml_tag_list[1:], from tag i on, with
\* current the index of current_tag.  tree.parent[t] is the index of t's
\* parent_tag, 0 for None; tree.children[t] are the indices in t.children.
RECURSIVE link_tags(_, _, _, _)
link_tags(tags, i, current, tree) ==
    IF i > Len(tags) THEN tree
    ELSE IF tags[i].is_start_tag
        THEN link_tags(tags, i + 1, i,
                 [parent |-> [tree.parent EXCEPT ![i] = current],
                  children |-> [tree.children EXCEPT ![current] = Append(@, i)]])
    ELSE IF tree.parent[current] = 0 THEN tree
    ELSE link_tags(tags, i + 1, tree.parent[current], tree)

NoTree(tags) == [parent |-> [t \in 1..Len(tags) |-> 0], children |-> [t \in 1..Len(tags) |-> <<>>]]

\* {attr.name: attr.value for attr in attributes}.get(key): the value of the
\* last attribute of that name.
attrs_dict_get(attributes, key) ==
    IF \A i \in 1..Len(attributes) : attributes[i].name # key THEN Absent
    ELSE Some(attributes[CHOOSE i \in 1..Len(attributes) :
                             /\ attributes[i].name = key
                             /\ \A j \in (i + 1)..Len(attributes) : attributes[j].name # key].value)

\* int(version.split(' ')[1], 16) for what attrs_dict.get gave.
sdk_version(version) ==
    IF ~version.present THEN [err |-> "AttributeError", value |-> 0]
    ELSE With(split(version.value, " "),
              LAMBDA tokens :
                  IF Len(tokens) < 2 THEN [err |-> "IndexError", value |-> 0]
                  ELSE int16(tokens[2]))

TrueText == <<"t", "r", "u", "e">>

\* The body of the loop of _process_tags for one child of the root, acc being
\* the parser's fields so far.  An attribute's value is a str, so the test
\* in ["true", True] is equality with the text true, and handle_profiling,
\* the str compared to the list ["true", True] with ==, is False.
process_child(child, acc) ==
    IF child.name = "instrumentation"
        THEN [acc EXCEPT !.instrumentation =
                 Some([runner |-> attrs_dict_get(child.attributes, "name"),
                       functional_test |->
                           attrs_dict_get(child.attributes, "functionalTest") = Some(TrueText),
                       handle_profiling |-> FALSE,
                       label |-> attrs_dict_get(child.attributes, "label"),
                       target_package |-> attrs_dict_get(child.attributes, "targetPackage")])]
    ELSE IF child.name = "uses-sdk"
        THEN With(sdk_version(attrs_dict_get(child.attributes, "targetSdkVersion")),
                  LAMBDA target_sdk_version :
                      IF target_sdk_version.err # NoError
                          THEN [acc EXCEPT !.err = target_sdk_version.err]
                      ELSE With(sdk_version(attrs_dict_get(child.attributes, "minSdkVersion")),
                                LAMBDA min_sdk_version :
                                    IF min_sdk_version.err # NoError
                                        THEN [acc EXCEPT !.err = min_sdk_version.err]
                                    ELSE [acc EXCEPT !.uses_sdk =
                                             Some([min_sdk_version |-> min_sdk_version.value,
                                                   target_sdk_version |-> target_sdk_version.value])]))
    ELSE IF child.name = "uses-permission"
        THEN With(attrs_dict_get(child.attributes, "name"),
                  LAMBDA name :
                      IF ~name.present THEN [acc EXCEPT !.err = "KeyError"]
                      ELSE [acc EXCEPT !.permissions = Append(@, name.value)])
    ELSE acc

RECURSIVE process_children(_, _, _)
process_children(tags, children, acc) ==
    IF children = <<>> \/ acc.err # NoError THEN acc
    ELSE process_children(tags, Tail(children), process_child(tags[Head(children)], acc))

\* _process_tags without its test of the root's name.
process_tags_any_root(tags, tree, acc) ==
    IF tags = <<>> THEN acc
    ELSE process_children(tags, tree.children[1],
             [acc EXCEPT !.has_package_name = TRUE,
                         !.package_name = attrs_dict_get(tags[1].attributes, "package")])

\* AXMLParser._process_tags on the fields __init__ has set: _package_name is
\* assigned only in the branch of a root named manifest.
process_tags(tags, tree, acc) ==
    IF tags = <<>> \/ tags[1].name # "manifest" THEN acc
    ELSE process_children(tags, tree.children[1],
             [acc EXCEPT !.has_package_name = TRUE,
                         !.package_name = attrs_dict_get(tags[1].attributes, "package")])

\* AXMLParser.__init__ after the header: the tags, the tree, the facts.
AXMLParser_tags(items) ==
    With(xml_tag_list(items.items),
         LAMBDA tags :
             With(IF tags = <<>> THEN NoTree(tags) ELSE link_tags(tags, 2, 1, NoTree(tags)),
                  LAMBDA tree :
                      process_tags(tags, tree,
                          [err |-> NoError, tags |-> tags, tree |-> tree,
                           instrumentation |-> Absent, uses_sdk |-> Absent,
                           permissions |-> <<>>,
                           has_package_name |-> FALSE, package_name |-> Absent])))

FailedAxml(err) ==
    [err |-> err, tags |-> <<>>, tree |-> NoTree(<<>>), instrumentation |-> Absent,
     uses_sdk |-> Absent, permissions |-> <<>>, has_package_name |-> FALSE,
     package_name |-> Absent]

\* AXMLParser.__init__: the exception raised, if any, the fields set, and how
\* much of the source was read: the words of the header and the tokens.
AXMLParser_init(doc) ==
    With(AXMLParser_Header_init(doc.header),
         LAMBDA header :
             IF header.err # NoError
                 THEN FailedAxml(header.err) @@ [header_read |-> header.read, tokens_read |-> 0]
             ELSE With(parse_items(doc.tokens, <<>>),
                       LAMBDA items :
                           (IF items.err # NoError THEN FailedAxml(items.err)
                            ELSE AXMLParser_tags(items))
                           @@ [header_read |-> header.read, tokens_read |-> items.read]))

\* The property AXMLParser.package_name: return self._package_name
AXMLParser_package_name(parser) ==
    IF parser.has_package_name
        THEN [err |-> NoError, value |-> parser.package_name]
        ELSE [err |-> "AttributeError", value |-> Absent]

(***************************************************************************)
(* SpecDex: DexParser instances are constructed over the files of the      *)
(* model and queried, each query being iterated to its end.  A parser is   *)
(* the file it reads, its _package_filters, and, for each of its           *)
(* ClassDefItems (which its table of class definitions keeps once parsed), *)
(* the _super_descriptor the item holds.  What else the tables keep once   *)
(* parsed is a function of the file, which does not change.                *)
(***************************************************************************)
MaxParsers == 2

MaxRuns == 2

\* package_names: None or [] (both leave _package_filters empty), or ["a"]
FilterChoices == {<<>>, << <<"a">> >>}

\* The descriptors a caller passes to find_junit3_tests instead of the default.
DescriptorChoices == {<<JUNIT3_DEFAULT_DESCRIPTORS[1]>>}

Context(p) ==
    [parsers |-> parsers, self |-> p, type_ids |-> Item_type_ids,
     string_ids |-> Item_string_ids]

InitDex ==
    /\ parsers = <<>>
    /\ Item_type_ids = 0
    /\ Item_string_ids = 0
    /\ junit3_descriptors = JUNIT3_DEFAULT_DESCRIPTORS
    /\ runs = <<>>
    /\ stream = <<>>
    /\ result = NoResult
    /\ ScopeIdle
    /\ RestIdle

\* What DexParser(file, package_names) leaves behind, r being what __init__
\* did up to the construction of the tables.
Constructed(file, package_names, r) ==
    /\ result' = [op |-> "DexParser", file |-> file, err |-> r.err, ids |-> r.ids]
    /\ IF r.err = NoError
       THEN /\ parsers' = Append(parsers,
                   [file |-> file, package_filters |-> package_names,
                    super_descriptor |-> [i \in 1..Len(DexFile(file).class_defs) |-> <<>>]])
            /\ Item_type_ids' = Len(parsers) + 1
            /\ Item_string_ids' = Len(parsers) + 1
       ELSE UNCHANGED <<parsers, Item_type_ids, Item_string_ids>>

\* DexParser(file, package_names)
Construct(file, package_names) ==
    /\ Len(parsers) < MaxParsers
    /\ Constructed(file, package_names, DexParser_init(DexFile(file)))
    /\ UNCHANGED <<restVars, scopeVars, stream, junit3_descriptors, runs>>

\* What a run of find_junit3_tests on parser p leaves behind, r being what the
\* run did: the default list has grown if it was the list passed.
Junit3Run(p, default, r) ==
    /\ runs' = Append(runs,
            [parser |-> p, kind |-> "junit3", default |-> default,
             type_ids |-> Item_type_ids, string_ids |-> Item_string_ids,
             out |-> r.out, err |-> r.err, classes |-> r.classes, scan |-> r.scan])
    /\ parsers' = [parsers EXCEPT ![p].super_descriptor = r.super_descriptor]
    /\ junit3_descriptors' = IF default THEN r.descriptors ELSE junit3_descriptors

\* list(parsers[p].find_junit3_tests()): the descriptors are the list object
\* that is the default argument.
Junit3Default(p) ==
    /\ Len(runs) < MaxRuns
    /\ Junit3Run(p, TRUE, find_junit3_tests(Context(p), junit3_descriptors))
    /\ UNCHANGED <<restVars, scopeVars, pureVars, Item_type_ids, Item_string_ids>>

\* list(parsers[p].find_junit3_tests(descriptors)) with a list of the caller's
Junit3(p, descriptors) ==
    /\ Len(runs) < MaxRuns
    /\ Junit3Run(p, FALSE, find_junit3_tests(Context(p), descriptors))
    /\ UNCHANGED <<restVars, scopeVars, pureVars, Item_type_ids, Item_string_ids>>

\* What a run of find_junit4_tests on parser p leaves behind.
Junit4Run(p, r) ==
    runs' = Append(runs,
        [parser |-> p, kind |-> "junit4", default |-> FALSE,
         type_ids |-> Item_type_ids, string_ids |-> Item_string_ids,
         out |-> r.out, err |-> r.err, classes |-> r.classes, scan |-> <<>>])

\* list(parsers[p].find_junit4_tests())
Junit4(p) ==
    /\ Len(runs) < MaxRuns
    /\ Junit4Run(p, find_junit4_tests(Context(p)))
    /\ UNCHANGED <<restVars, scopeVars, pureVars, parsers, Item_type_ids, Item_string_ids,
                   junit3_descriptors>>

NextDex ==
    \/ \E file \in GoodFiles \cup BadFiles, package_names \in FilterChoices :
          Construct(file, package_names)
    \/ \E p \in DOMAIN parsers : Junit3Default(p)
    \/ \E p \in DOMAIN parsers, descriptors \in DescriptorChoices : Junit3(p, descriptors)
    \/ \E p \in DOMAIN parsers : Junit4(p)

SpecDex == InitDex /\ [][NextDex]_vars

(***************************************************************************)
(* What a file declares, read from it without the decoder: the descriptor  *)
(* of a type of its own Type table, the name of a method of its own Method *)
(* table, and the virtual methods in the class data of a class, which      *)
(* follow the four sizes, the encoded fields (two LEB128 values each) and  *)
(* the encoded direct methods (three each), each virtual method naming its *)
(* index by the difference to that of the one before.                      *)
(***************************************************************************)
DeclaredDescriptor(f, type_index) == f.strings[f.string_ids[f.type_ids[type_index + 1] + 1]]

DeclaredMethodName(f, method_index) ==
    f.strings[f.string_ids[f.method_ids[method_index + 1].name_index + 1]]

DeclaredDotName(f, class_def) == descriptor2name(DeclaredDescriptor(f, class_def.class_index))

RECURSIVE DeclaredMethodIndices(_, _, _, _)
DeclaredMethodIndices(bytes, p, remaining, previous) ==
    IF remaining = 0 THEN <<>>
    ELSE With(read_leb128s(bytes, p, 3), LAMBDA r :
            <<previous + r.value[1]>>
                \o DeclaredMethodIndices(bytes, r.pos, remaining - 1, previous + r.value[1]))

DeclaredVirtualMethods(f, class_def) ==
    With(read_leb128s(f.data, class_def.class_data_offset, 4), LAMBDA sizes :
    With(read_leb128s(f.data, sizes.pos,
                      2 * (sizes.value[1] + sizes.value[2]) + 3 * sizes.value[3]),
         LAMBDA before :
            DeclaredMethodIndices(f.data, before.pos, sizes.value[4], 0)))

\* The run was made with the class attributes holding the tables of the
\* parser it ran on.
OwnTables(run) == run.type_ids = run.parser /\ run.string_ids = run.parser

FileOfRun(run) == DexFile(parsers[run.parser].file)

FiltersOfRun(run) == parsers[run.parser].package_filters

\* C2: in one scan of find_classes_directly_inherited_from, a class whose
\* superclass was yielded earlier in the same scan is yielded too.  Stated of
\* the scans that ran to their end on a parser's own tables.
C2_ScanIsTransitive ==
    \A i \in DOMAIN runs :
        (runs[i].kind = "junit3" /\ runs[i].err = NoError /\ OwnTables(runs[i])) =>
            \A j, k \in DOMAIN runs[i].scan :
                (/\ j < k
                 /\ runs[i].scan[j].selected
                 /\ runs[i].scan[k].super_descriptor
                        = DeclaredDescriptor(FileOfRun(runs[i]),
                              FileOfRun(runs[i]).class_defs[j].class_index))
                    => runs[i].scan[k].selected

\* C3: two runs of find_junit3_tests with the default descriptor list over the
\* same bytes and the same filters, on the same parser or on a later one,
\* yield the same results.  Stated of runs on a parser's own tables.
C3_DefaultRunsAgree ==
    \A i, j \in DOMAIN runs :
        (/\ i < j
         /\ runs[i].kind = "junit3" /\ runs[i].default /\ OwnTables(runs[i])
         /\ runs[j].kind = "junit3" /\ runs[j].default /\ OwnTables(runs[j])
         /\ parsers[runs[i].parser].file = parsers[runs[j].parser].file
         /\ FiltersOfRun(runs[i]) = FiltersOfRun(runs[j]))
            => runs[i].out = runs[j].out /\ runs[i].err = runs[j].err

\* C4: the String and Type tables a parser resolves descriptors through are
\* its own, whatever other parsers have been constructed.
C4_TablesAreOwn == \A i \in DOMAIN runs : OwnTables(runs[i])

\* C5: in both discovery passes a class is kept if and only if no filter was
\* supplied or some filter is a substring of the class's dotted name.
C5_SameFilterRule ==
    \A i \in DOMAIN runs :
        \A c \in DOMAIN runs[i].classes :
            runs[i].classes[c].kept <=>
                \/ FiltersOfRun(runs[i]) = <<>>
                \/ \E f \in DOMAIN FiltersOfRun(runs[i]) :
                      IsSubstring(FiltersOfRun(runs[i])[f], runs[i].classes[c].dot_sep_name)

\* The "<dotted.class.Name>#<methodName>" of the declared virtual methods of a
\* class whose names begin with test.
C6_TestsOf(f, class_def) ==
    {DeclaredDotName(f, class_def) \o <<"#">> \o DeclaredMethodName(f, m) :
        m \in {n \in ListSet(DeclaredVirtualMethods(f, class_def)) :
                  startswith(DeclaredMethodName(f, n), test_prefix)}}

\* C6: find_junit3_tests yields "<dotted.class.Name>#<methodName>" for each
\* virtual method named test... of a class that directly inherits
\* Ljunit/framework/TestCase;, and nothing that is not of that form for a
\* virtual method named test... of a class.  Stated of the runs without
\* filters that ran to their end on a parser's own tables.
C6_Junit3QualifiedNames ==
    \A i \in DOMAIN runs :
        (/\ runs[i].kind = "junit3" /\ runs[i].err = NoError /\ OwnTables(runs[i])
         /\ FiltersOfRun(runs[i]) = <<>>) =>
            LET f == FileOfRun(runs[i])
            IN  /\ \A c \in DOMAIN f.class_defs :
                      DeclaredDescriptor(f, f.class_defs[c].super_class_index)
                            = JUNIT3_DEFAULT_DESCRIPTORS[1]
                        => C6_TestsOf(f, f.class_defs[c]) \subseteq ListSet(runs[i].out)
                /\ ListSet(runs[i].out)
                      \subseteq UNION {C6_TestsOf(f, f.class_defs[c]) : c \in DOMAIN f.class_defs}

\* The descriptors of the annotations the directory at annotations_offset
\* declares for the method of the given entry.
C7_AnnotationsOf(f, entry) ==
    IF entry.annotations_offset = 0 THEN {}
    ELSE {DeclaredDescriptor(f, f.annotation_items[a].type_index) :
            a \in ListSet(f.annotation_sets[entry.annotations_offset])}

\* C7: find_junit4_tests yields "<dotted.class.Name>#<methodName>" for a method
\* of a class with annotations if and only if the method carries
\* Lorg/junit/Test; and does not carry Lorg/junit/Ignore;.  Stated of the runs
\* without filters that ran to their end on a parser's own tables.
C7_Junit4TestNotIgnored ==
    \A i \in DOMAIN runs :
        (/\ runs[i].kind = "junit4" /\ runs[i].err = NoError /\ OwnTables(runs[i])
         /\ FiltersOfRun(runs[i]) = <<>>) =>
            LET f == FileOfRun(runs[i])
                annotated == {c \in DOMAIN f.class_defs : f.class_defs[c].annotations_offset # 0}
                entries(c) == f.directories[f.class_defs[c].annotations_offset]
            IN  ListSet(runs[i].out) =
                    UNION {{DeclaredDotName(f, f.class_defs[c]) \o <<"#">>
                                \o DeclaredMethodName(f, entries(c)[e].index) :
                              e \in {d \in DOMAIN entries(c) :
                                  /\ test_annotation_descriptor
                                        \in C7_AnnotationsOf(f, entries(c)[d])
                                  /\ ignored_annotation_descriptor
                                        \notin C7_AnnotationsOf(f, entries(c)[d])}} :
                           c \in annotated}

\* The magic bytes or the endian tag of the file are not the expected ones.
BadMagicOrTag(f) == f.head # GoodHead \/ f.endian_tag # EXPECTED_ENDIAN_TAG

\* The file holds all the bytes Header.__init__ reads.
HeaderComplete(f) == f.length >= Len(GoodHead) + HeaderRest

\* C8 as stated: constructing a DexParser over a file with other magic bytes
\* or another endian tag fails with a FormatException and constructs no table.
C8_BadHeaderIsFormatError ==
    (result.op = "DexParser" /\ BadMagicOrTag(DexFile(result.file))) =>
        result.err = "FormatException" /\ result.ids = {}

\* C8: constructing a DexParser over a file with other magic bytes or another
\* endian tag fails and constructs no table: with a FormatException if the
\* file holds a whole header, with the exception of the failed read if it
\* does not.  The class attributes stay those of the last parser constructed,
\* and there is no parser over such a file for a query to run on.
C8_BadHeaderRejected ==
    /\ (result.op = "DexParser" /\ BadMagicOrTag(DexFile(result.file))) =>
          /\ result.ids = {}
          /\ IF HeaderComplete(DexFile(result.file))
             THEN result.err = "FormatException"
             ELSE result.err \in {"IndexError", "struct.error"}
    /\ \A p \in DOMAIN parsers : ~BadMagicOrTag(DexFile(parsers[p].file))
    /\ \A i \in DOMAIN runs : runs[i].parser \in DOMAIN parsers
    /\ Item_type_ids = Len(parsers) /\ Item_string_ids = Len(parsers)

\* A parser has been constructed and queried, and then the construction of
\* another over a whole header with the wrong endian tag failed.
C8_Witness ==
    /\ result.op = "DexParser" /\ result.file = "bad_tag"
    /\ result.err = "FormatException" /\ result.ids = {}
    /\ Len(parsers) = 1 /\ runs # <<>>

(***************************************************************************)
(* SpecAxml: an AXMLParser constructed from a manifest whose tag stream is *)
(* a first tag followed by up to MaxBody more tags and the end of the      *)
(* document, or one of a few damaged manifests; then package_name read.    *)
(***************************************************************************)
MaxBody == 4

GoodAxmlHeader ==
    [tag |-> EXPECTED_TAG, string_tag |-> EXPECTED_STRING_TAG,
     resource_tag |-> EXPECTED_RESOURCE_TAG, resource_chunk_size |-> 8]

\* An attribute with a value string, and one with a resource id only.
TextAttr(name, text) == [name |-> name, val |-> Some(text), resourceId |-> -1]

ResourceAttr(name, resourceId) == [name |-> name, val |-> Absent, resourceId |-> resourceId]

StartTag(name, attributes) ==
    [first_word |-> XML_START_TAG, name |-> name, attributes |-> attributes]

EndTag(name) == [first_word |-> XML_START_END_TAG, name |-> name, attributes |-> <<>>]

EndDoc == [first_word |-> XML_END_DOC_TAG, name |-> "", attributes |-> <<>>]

PackageText == <<"a", ".", "b">>

Permission1 == <<"p", "1">>

Permission2 == <<"p", "2">>

RootTags ==
    {StartTag("manifest", <<TextAttr("package", PackageText)>>),
     StartTag("manifest", <<TextAttr("versionName", <<"1">>)>>),
     StartTag("application", <<TextAttr("package", PackageText)>>)}

BodyTags ==
    {EndTag("manifest"),
     StartTag("application", <<>>),
     StartTag("uses-permission", <<TextAttr("name", Permission1)>>),
     StartTag("uses-permission", <<TextAttr("name", Permission2)>>),
     StartTag("uses-sdk", <<ResourceAttr("minSdkVersion", 15),
                            ResourceAttr("targetSdkVersion", 25)>>),
     StartTag("uses-sdk", <<TextAttr("minSdkVersion", ResourceIdText \o <<"0", "x", "a", "B">>),
                            ResourceAttr("targetSdkVersion", 2748)>>),
     StartTag("instrumentation", <<TextAttr("name", <<"r">>),
                                   TextAttr("functionalTest", TrueText)>>)}

DamagedDocuments ==
    {[header |-> [GoodAxmlHeader EXCEPT !.tag = 0], tokens |-> <<EndDoc>>],
     [header |-> [GoodAxmlHeader EXCEPT !.resource_chunk_size = 6], tokens |-> <<EndDoc>>],
     [header |-> GoodAxmlHeader, tokens |-> <<>>],
     [header |-> GoodAxmlHeader,
      tokens |-> <<StartTag("manifest", <<>>), StartTag("uses-permission", <<>>), EndDoc>>],
     [header |-> GoodAxmlHeader,
      tokens |-> <<[first_word |-> 7, name |-> "", attributes |-> <<>>]>>]}

AxmlDocuments(longest) ==
    DamagedDocuments \cup
    {[header |-> GoodAxmlHeader, tokens |-> <<EndDoc>>]} \cup
    {[header |-> GoodAxmlHeader, tokens |-> <<root>> \o body \o <<EndDoc>>] :
        root \in RootTags, body \in SeqUpTo(BodyTags, longest)}

InitAxml ==
    /\ document \in AxmlDocuments(MaxBody)
    /\ axml = NoAxml
    /\ result = NoResult
    /\ stream = <<>>
    /\ ScopeIdle
    /\ DexIdle
    /\ TablesIdle
    /\ ParseIdle

\* ByteStream(path) and AXMLParser(bytestream), as AXMLParser.parse makes them,
\* r being what AXMLParser.__init__ gave: the file is closed by the last
\* statement of __init__.
AxmlConstructed(r) ==
    /\ axml' = [op |-> "AXMLParser", err |-> r.err, tags |-> r.tags, tree |-> r.tree,
                instrumentation |-> r.instrumentation, uses_sdk |-> r.uses_sdk,
                permissions |-> r.permissions, has_package_name |-> r.has_package_name,
                package_name |-> r.package_name, header_read |-> r.header_read,
                tokens_read |-> r.tokens_read]
    /\ handles' = Append(handles, [path |-> "AndroidManifest.xml", open |-> r.err # NoError])

AxmlConstruct ==
    /\ axml = NoAxml
    /\ AxmlConstructed(AXMLParser_init(document))
    /\ UNCHANGED <<scopeVars, pureVars, dexVars, document, tables, readers, generator>>

\* parser.package_name on a constructed parser
Get_package_name ==
    /\ axml.op = "AXMLParser"
    /\ axml.err = NoError
    /\ result = NoResult
    /\ With(AXMLParser_package_name(axml),
            LAMBDA r : result' = [op |-> "package_name", err |-> r.err, value |-> r.value])
    /\ UNCHANGED <<scopeVars, stream, dexVars, restVars>>

NextAxml == AxmlConstruct \/ Get_package_name

SpecAxml == InitAxml /\ [][NextAxml]_vars

\* What the decoder saw of the manifest: the header passed its checks and the
\* token loop reached the end of the document; the tags it decoded.
AxmlDecoded ==
    /\ AXMLParser_Header_init(document.header).err = NoError
    /\ parse_items(document.tokens, <<>>).err = NoError

DocumentTags == xml_tag_list(parse_items(document.tokens, <<>>).items)

ManifestRooted == DocumentTags # <<>> /\ DocumentTags[1].name = "manifest"

\* How many tags are open below the first tag just before tag i: the start tags
\* less the end tags among tags 2 to i - 1.
OpenBefore(tags, i) ==
    Cardinality({j \in 2..(i - 1) : tags[j].is_start_tag})
        - Cardinality({j \in 2..(i - 1) : ~tags[j].is_start_tag})

\* Tag i is a direct child of the first tag: a start tag met when nothing but
\* the first tag is open, the first tag not having been closed before.
IsDirectChild(tags, i) ==
    /\ i \in 2..Len(tags)
    /\ tags[i].is_start_tag
    /\ OpenBefore(tags, i) = 0
    /\ \A j \in 2..(i - 1) : ~tags[j].is_start_tag => OpenBefore(tags, j) > 0

DirectChildren(tags, name) == {i \in 1..Len(tags) : IsDirectChild(tags, i) /\ tags[i].name = name}

Constructed_Axml == axml.op = "AXMLParser" /\ axml.err = NoError

\* The integers the version texts of the manifests stand for.
SdkVersionTexts ==
    {[text |-> ResourceIdText \o <<"0", "x", "f">>, value |-> 15],
     [text |-> ResourceIdText \o <<"0", "x", "1", "9">>, value |-> 25],
     [text |-> ResourceIdText \o <<"0", "x", "a", "B">>, value |-> 171],
     [text |-> ResourceIdText \o <<"0", "x", "a", "b", "c">>, value |-> 2748]}

IsSdkVersion(version, value) ==
    version.present /\ [text |-> version.value, value |-> value] \in SdkVersionTexts

\* C13: for a manifest whose uses-sdk child has minSdkVersion and
\* targetSdkVersion of the form "resourceID 0x<hex>", min_sdk_version and
\* target_sdk_version are the base-16 integers of the second token
\* ("resourceID 0xf" is 15, "resourceID 0x19" is 25); of several uses-sdk
\* children the last one counts.
C13_SdkVersionsParsed ==
    (/\ Constructed_Axml
     /\ ManifestRooted
     /\ DirectChildren(DocumentTags, "uses-sdk") # {}) =>
        LET last == CHOOSE i \in DirectChildren(DocumentTags, "uses-sdk") :
                        \A j \in DirectChildren(DocumentTags, "uses-sdk") : j <= i
            attributes == DocumentTags[last].attributes
        IN  /\ axml.uses_sdk.present
            /\ IsSdkVersion(attrs_dict_get(attributes, "minSdkVersion"),
                            axml.uses_sdk.value.min_sdk_version)
            /\ IsSdkVersion(attrs_dict_get(attributes, "targetSdkVersion"),
                            axml.uses_sdk.value.target_sdk_version)

\* Both uses-sdk tags of the model have been read, the one of the test last.
C13_Witness ==
    /\ Constructed_Axml
    /\ ManifestRooted
    /\ Cardinality(DirectChildren(DocumentTags, "uses-sdk")) = 2
    /\ \E i \in DirectChildren(DocumentTags, "uses-sdk") :
          IsSdkVersion(attrs_dict_get(DocumentTags[i].attributes, "minSdkVersion"), 171)
    /\ axml.uses_sdk = Some([min_sdk_version |-> 15, target_sdk_version |-> 25])

\* C14: if the root tag's name is not manifest, or no tag was decoded at all,
\* constructing the AXMLParser does not fail, and afterwards instrumentation is
\* absent, uses_sdk is absent and permissions is empty, whatever children the
\* root has.
C14_NoManifestNoFacts ==
    (axml.op = "AXMLParser" /\ AxmlDecoded /\ ~ManifestRooted) =>
        /\ axml.err = NoError
        /\ axml.instrumentation = Absent
        /\ axml.uses_sdk = Absent
        /\ axml.permissions = <<>>

\* A root named application with a uses-permission and a uses-sdk child, and
\* an instrumentation tag below, has been constructed from.
C14_Witness ==
    /\ axml.op = "AXMLParser"
    /\ AxmlDecoded
    /\ DocumentTags # <<>>
    /\ DocumentTags[1].name = "application"
    /\ DirectChildren(DocumentTags, "uses-permission") # {}
    /\ DirectChildren(DocumentTags, "uses-sdk") # {}
    /\ \E i \in 1..Len(DocumentTags) : DocumentTags[i].name = "instrumentation"

\* C15 as stated: after any successful construction, package_name returns a
\* string or absent and never fails; when the root tag is not named manifest,
\* or the manifest root has no package attribute, package_name is absent.
C15_PackageNameNeverFails ==
    (Constructed_Axml /\ result.op = "package_name") =>
        /\ result.err = NoError
        /\ (~ManifestRooted \/ ~attrs_dict_get(DocumentTags[1].attributes, "package").present)
              => result.value = Absent

\* The names of the uses-permission tags among tags i to the last that are
\* direct children of the first tag, in the order of the document.
RECURSIVE PermissionsFrom(_, _)
PermissionsFrom(tags, i) ==
    IF i > Len(tags) THEN <<>>
    ELSE IF IsDirectChild(tags, i) /\ tags[i].name = "uses-permission"
        THEN <<attrs_dict_get(tags[i].attributes, "name").value>> \o PermissionsFrom(tags, i + 1)
    ELSE PermissionsFrom(tags, i + 1)

\* C18: for a manifest-rooted tree, permissions is the sequence of the name
\* values of the root's direct uses-permission children, in document order,
\* duplicates kept; uses-permission tags elsewhere contribute nothing.
C18_PermissionsOfDirectChildren ==
    (Constructed_Axml /\ ManifestRooted) =>
        axml.permissions = PermissionsFrom(DocumentTags, 2)

\* One permission twice from two direct children, and a uses-permission tag
\* inside the first of them left out.
C18_Witness ==
    /\ Constructed_Axml
    /\ ManifestRooted
    /\ axml.permissions = <<Permission1, Permission1>>
    /\ \E i \in 1..Len(DocumentTags) :
          /\ DocumentTags[i].name = "uses-permission"
          /\ attrs_dict_get(DocumentTags[i].attributes, "name") = Some(Permission2)

(***************************************************************************)
(* ByteStream.CollectionReader and the tables of DexParser.__init__.       *)
(***************************************************************************)

\* The item classes DexParser.__init__ makes a table for, in its order.
TableNames ==
    <<"StringIdItem", "TypeIdItem", "ProtoIdItem", "FieldIdItem", "MethodIdItem",
      "ClassDefItem">>

\* The class object a name of DexParser stands for:
\* FieldIdItem = MethodIdItem = MemberIdItem.
ClassObject(name) ==
    IF name \in {"FieldIdItem", "MethodIdItem"} THEN "MemberIdItem" ELSE name

\* FORMAT of each item class, as the byte widths of its fields.
Item_FORMAT(clazz) ==
    IF clazz \in {"StringIdItem", "TypeIdItem"} THEN <<4>>
    ELSE IF clazz = "ProtoIdItem" THEN <<4, 4, 4>>
    ELSE IF clazz = "MemberIdItem" THEN <<2, 2, 4>>
    ELSE <<4, 4, 4, 4, 4, 4, 4, 4>>

\* struct.calcsize("<" + FORMAT)
RECURSIVE calcsize(_)
calcsize(format) == IF format = <<>> THEN 0 ELSE Head(format) + calcsize(Tail(format))

\* struct.unpack("<" + FORMAT, bs) for bs of the size of the format
RECURSIVE struct_unpack(_, _)
struct_unpack(format, bs) ==
    IF format = <<>> THEN <<>>
    ELSE <<struct_unpack_signed(SubSeq(bs, 1, Head(format)))>>
            \o struct_unpack(Tail(format), SubSeq(bs, Head(format) + 1, Len(bs)))

\* Header._size_and_offset after the loop of Header.__init__, pairs[i] being
\* the (size, offset) read for the i-th class of the loop: a later class that
\* is the same object as an earlier one takes its place in the dict.
Header_size_and_offset(pairs) ==
    [clazz \in IdClasses |->
        pairs[CHOOSE i \in 1..Len(TableNames) :
                  /\ ClassObject(TableNames[i]) = clazz
                  /\ \A j \in (i + 1)..Len(TableNames) : ClassObject(TableNames[j]) # clazz]]

\* CollectionReader.__init__ with an offset and a count
CollectionReader_init(clazz, offset, count) ==
    [clazz |-> clazz, count |-> count, offset |-> offset,
     byte_size |-> calcsize(Item_FORMAT(clazz)), parsed |-> <<>>]

\* DexParser._ids after the loop of DexParser.__init__
DexParser_ids(pairs) ==
    [clazz \in IdClasses |->
        CollectionReader_init(clazz, Header_size_and_offset(pairs)[clazz].offset,
                              Header_size_and_offset(pairs)[clazz].size)]

\* CollectionReader.__getitem__ without the seek of its finally clause.
CollectionReader_getitem_no_restore(bytes, cursor, reader, index) ==
    IF index >= reader.count
        THEN [err |-> "IndexError", value |-> <<>>, pos |-> cursor, parsed |-> reader.parsed]
    ELSE IF index \in DOMAIN reader.parsed
        THEN [err |-> NoError, value |-> reader.parsed[index], pos |-> cursor,
              parsed |-> reader.parsed]
    ELSE With(read_struct(bytes, reader.offset + index * reader.byte_size, reader.byte_size),
              LAMBDA got :
                  IF got.err # NoError
                      THEN [err |-> got.err, value |-> <<>>, pos |-> got.pos,
                            parsed |-> reader.parsed]
                  ELSE With([clazz |-> reader.clazz,
                             vals |-> struct_unpack(Item_FORMAT(reader.clazz), got.value)],
                            LAMBDA elem :
                                [err |-> NoError, value |-> elem, pos |-> got.pos,
                                 parsed |-> (index :> elem) @@ reader.parsed]))

\* CollectionReader.__getitem__ for an index that is not negative, the stream
\* being at cursor: the exception or the element, where the stream is left,
\* and the cache afterwards.
CollectionReader_getitem(bytes, cursor, reader, index) ==
    IF index >= reader.count
        THEN [err |-> "IndexError", value |-> <<>>, pos |-> cursor, parsed |-> reader.parsed]
    ELSE IF index \in DOMAIN reader.parsed
        THEN [err |-> NoError, value |-> reader.parsed[index], pos |-> cursor,
              parsed |-> reader.parsed]
    ELSE With(read_struct(bytes, reader.offset + index * reader.byte_size, reader.byte_size),
              LAMBDA got :
                  IF got.err # NoError
                      THEN [err |-> got.err, value |-> <<>>, pos |-> cursor,
                            parsed |-> reader.parsed]
                  ELSE With([clazz |-> reader.clazz,
                             vals |-> struct_unpack(Item_FORMAT(reader.clazz), got.value)],
                            LAMBDA elem :
                                [err |-> NoError, value |-> elem, pos |-> cursor,
                                 parsed |-> (index :> elem) @@ reader.parsed]))

(***************************************************************************)
(* SpecTable: the tables of one DexParser over a source of TableFileSize   *)
(* bytes, read by index while the stream is moved about.  The source holds *)
(* one String, Type and Proto id, two Field ids, two Method ids, and one   *)
(* class definition followed by the first bytes of a second.               *)
(***************************************************************************)
MaxIndex == 2

TableFileSize == 92

TableFile == [k \in 1..TableFileSize |-> (k * 7) % 251]

\* The (size, offset) pairs a header may hold for the seven classes of
\* Header.__init__.
TableHeaders ==
    {<<[size |-> 1, offset |-> 0], [size |-> 1, offset |-> 4], [size |-> 1, offset |-> 8],
       [size |-> fields, offset |-> 20], [size |-> methods, offset |-> 36],
       [size |-> classes, offset |-> 52], [size |-> 0, offset |-> 0]>> :
        fields \in 1..2, methods \in 1..2, classes \in 1..2}

SeekTargets == {0, 5, TableFileSize}

\* One parser has been constructed; parsers[1].headers are the pairs its
\* Header read.
InitTable ==
    /\ \E pairs \in TableHeaders :
          /\ parsers = <<[headers |-> pairs]>>
          /\ tables = DexParser_ids(pairs)
    /\ Item_type_ids = 1
    /\ Item_string_ids = 1
    /\ junit3_descriptors = <<>>
    /\ runs = <<>>
    /\ result = NoResult
    /\ stream = TableFile
    /\ readers = <<>>
    /\ ScopeIdle
    /\ AxmlIdle
    /\ ParseIdle

\* What self._ids[DexParser.<name>][index] leaves behind, r being what
\* __getitem__ gave.
Got(name, index, r) ==
    /\ result' = [op |-> "getitem", name |-> name, index |-> index, err |-> r.err,
                  value |-> r.value, before |-> pos,
                  hit |-> index \in DOMAIN tables[ClassObject(name)].parsed]
    /\ pos' = r.pos
    /\ tables' = [tables EXCEPT ![ClassObject(name)].parsed = r.parsed]

Get(name, index) ==
    /\ Got(name, index, CollectionReader_getitem(stream, pos, tables[ClassObject(name)], index))
    /\ UNCHANGED <<scopes, exited, raising, stream, dexVars, document, axml, readers,
                   handles, generator>>

\* bytestream.seek(p) by some other read between two lookups
Seek(p) ==
    /\ pos # p
    /\ pos' = p
    /\ result' = [op |-> "seek"]
    /\ UNCHANGED <<scopes, exited, raising, stream, dexVars, restVars>>

NextTable ==
    \/ \E i \in 1..Len(TableNames), index \in 0..MaxIndex : Get(TableNames[i], index)
    \/ \E p \in SeekTargets : Seek(p)

SpecTable == InitTable /\ [][NextTable]_vars

\* The count the header holds for the table of the i-th item class.
HeaderCount(i) == parsers[1].headers[i].size

\* The record the bytes of the source hold at place index of a table.
RecordAt(reader, index) ==
    [clazz |-> reader.clazz,
     vals |-> struct_unpack(Item_FORMAT(reader.clazz),
                  SubSeq(stream, reader.offset + index * reader.byte_size + 1,
                         reader.offset + (index + 1) * reader.byte_size))]

\* C16 as stated: for each of the six ID tables with count n read from the
\* header, get(index) with index >= n fails with IndexError, decodes nothing,
\* adds nothing to the table's cache and leaves the cursor unchanged.
C16_OutOfRangeIsIndexError ==
    \A i \in 1..Len(TableNames) :
        (/\ result.op = "getitem"
         /\ result.name = TableNames[i]
         /\ result.index >= HeaderCount(i)) =>
            /\ result.err = "IndexError"
            /\ result.index \notin DOMAIN tables[ClassObject(TableNames[i])].parsed
            /\ pos = result.before

\* C17: repeated get(i) on one CollectionReader returns value-equal records,
\* whatever the cursor position at each call and whatever is read or looked
\* up in between: every successful get(i), hit or miss, returns the record at
\* place i of the table, and so does the cache; each get(i), hit or miss,
\* successful or failing, leaves the cursor where it was; a failed decode
\* leaves no entry for i in the cache.
C17_GetIsRepeatable ==
    /\ \A clazz \in IdClasses : \A index \in DOMAIN tables[clazz].parsed :
          tables[clazz].parsed[index] = RecordAt(tables[clazz], index)
    /\ result.op = "getitem" =>
          /\ pos = result.before
          /\ result.err = NoError =>
                /\ result.value = RecordAt(tables[ClassObject(result.name)], result.index)
                /\ result.index \in DOMAIN tables[ClassObject(result.name)].parsed
          /\ result.err # NoError =>
                result.index \notin DOMAIN tables[ClassObject(result.name)].parsed

\* A lookup has been answered from the cache with the stream elsewhere than at
\* the start, after another table was read; and a decode has failed.
C17_Witness ==
    /\ result.op = "getitem"
    /\ result.hit
    /\ result.before = 5
    /\ result.name = "ClassDefItem"
    /\ 1 \in DOMAIN tables["MemberIdItem"].parsed
    /\ result.value = RecordAt(tables["ClassDefItem"], 0)

\* The decode of the second class definition, which the source holds the
\* first bytes of only, has failed with the stream away from the start.
C17_FailedDecode ==
    /\ result.op = "getitem"
    /\ result.err = "struct.error"
    /\ result.before = 5


(***************************************************************************)
(* Specification SpecScan: parsers of the files whose classes do not all   *)
(* decode, and the two discoveries run on them to their end.               *)
(***************************************************************************)
NextScan ==
    \/ \E file \in DamagedFiles, package_names \in FilterChoices :
          Construct(file, package_names)
    \/ \E p \in DOMAIN parsers : Junit3Default(p)
    \/ \E p \in DOMAIN parsers : Junit4(p)

SpecScan == InitDex /\ [][NextScan]_vars

\* The class attributes and the parsers as a run found them.
RunContext(run) ==
    [parsers |-> parsers, self |-> run.parser, type_ids |-> run.type_ids,
     string_ids |-> run.string_ids]

\* What decoding the class data (in a run of find_junit3_tests) or the
\* annotations (in a run of find_junit4_tests) of class c of the run's file
\* comes to: the failure, if any, and the results of the class that are
\* yielded before it.
ClassDecode(run, c) ==
    With(FileOfRun(run).class_defs[c + 1], LAMBDA class_def :
        IF run.kind = "junit3"
        THEN With(find_method_names(RunContext(run), class_def), LAMBDA methods :
                [err |-> methods.err,
                 out |-> SelectSeq(methods.value,
                                   LAMBDA method : startswith(method, test_prefix))])
        ELSE With(parse_annotations(RunContext(run),
                     annotation_entries(FileOfRun(run),
                         FileOfRun(run).directories[class_def.annotations_offset]),
                     1, <<>>), LAMBDA parsed :
                IF parsed.err # NoError THEN [err |-> parsed.err, out |-> <<>>]
                ELSE [err |-> NoError,
                      out |-> junit4_tests(descriptor2name(
                                  DescribableItem_descriptor(RunContext(run),
                                      class_def.class_index).value),
                                  get_methods_with_annotation(parsed.value,
                                      test_annotation_descriptor),
                                  get_methods_with_annotation(parsed.value,
                                      ignored_annotation_descriptor))]))

\* What the first k classes a run came to yield between them.
YieldedUpTo(run, k) ==
    Flatten([j \in 1..k |-> IF run.classes[j].kept
                            THEN ClassDecode(run, run.classes[j].class).out
                            ELSE <<>>])

\* The k-th class the run came to is one the package filter let through and
\* whose class data or annotations fail to decode.
FailsAt(run, k) ==
    /\ k \in DOMAIN run.classes
    /\ run.classes[k].kept
    /\ ClassDecode(run, run.classes[k].class).err # NoError

\* C19: test discovery is fail-fast.  When the class data (find_junit3_tests)
\* or the annotations (find_junit4_tests) of a class the scan came to fail to
\* decode, the run ends with that failure at that class: the class is the
\* last the scan came to, so it is not passed over and no class later in the
\* table is looked at, and what the run yielded is what the classes before it
\* yield and what the failing class yields before its failure, nothing after.
C19_FailFast ==
    \A i \in DOMAIN runs : \A k \in DOMAIN runs[i].classes :
        FailsAt(runs[i], k) =>
            /\ runs[i].err = ClassDecode(runs[i], runs[i].classes[k].class).err
            /\ k = Len(runs[i].classes)
            /\ runs[i].out = YieldedUpTo(runs[i], k)

\* A run of the given kind on a parser's own tables that ended at a class
\* that fails to decode, while a class later in the table decodes and has
\* tests to yield.
FailedBeforeTests(run, kind) ==
    /\ run.kind = kind
    /\ OwnTables(run)
    /\ FailsAt(run, Len(run.classes))
    /\ \E c \in 0..(Len(FileOfRun(run).class_defs) - 1) :
          /\ c > run.classes[Len(run.classes)].class
          /\ ClassDecode(run, c).err = NoError
          /\ ClassDecode(run, c).out # <<>>

\* Both discoveries have failed at a class with tests still to come, and a
\* JUnit3 run has failed after a test of the failing class was yielded.
C19_Witness ==
    /\ \E i \in DOMAIN runs : FailedBeforeTests(runs[i], "junit3")
    /\ \E i \in DOMAIN runs : FailedBeforeTests(runs[i], "junit4")

C19_PartialClass ==
    \E i \in DOMAIN runs :
        /\ runs[i].kind = "junit3"
        /\ FailsAt(runs[i], Len(runs[i].classes))
        /\ ClassDecode(runs[i], runs[i].classes[Len(runs[i].classes)].class).out # <<>>


(***************************************************************************)
(* DexParser.parse: the generator over the .dex items of a container.  A   *)
(* container is the list of its .dex items in the order of zf.filelist,    *)
(* each item named by the file it extracts to.  What a resumption works on *)
(* is st, the parsers, the class attributes, the default list of           *)
(* find_junit3_tests and the files opened so far, and g, the generator:    *)
(* the item it is at, the file handle of the parser of that item, the      *)
(* results of the item not yet yielded (pending, each with the default     *)
(* list as it is when the result is yielded) and how the scans of the item *)
(* end (finish).                                                           *)
(***************************************************************************)

\* The tests find_junit3_tests has yielded when it ends, one by one, each
\* with the list of descriptors as it has grown when the test is yielded:
\* the descriptor of a class is appended before the class is looked at.
junit3_yields(ctx, r, initial) ==
    Flatten([k \in 1..Len(r.classes) |->
        IF ~r.classes[k].kept THEN <<>>
        ELSE With(SelectSeq(find_method_names(ctx,
                      FileOf(ctx, ctx.self).class_defs[r.classes[k].class + 1]).value,
                      LAMBDA method : startswith(method, test_prefix)), LAMBDA tests :
                [n \in 1..Len(tests) |->
                    [test |-> tests[n],
                     descriptors |-> SubSeq(r.descriptors, 1, Len(initial) + k)]])])

\* The tests find_junit4_tests has yielded when it ends: the list of
\* descriptors is what find_junit3_tests left.
junit4_yields(r, descriptors) ==
    [n \in 1..Len(r.out) |-> [test |-> r.out[n], descriptors |-> descriptors]]

\* The two loops of parse over one parser, iterated to their end:
\* find_junit4_tests is not started when find_junit3_tests raises.
parse_item(ctx, descriptors) ==
    With(find_junit3_tests(ctx, descriptors), LAMBDA r3 :
        IF r3.err # NoError
        THEN [pending |-> junit3_yields(ctx, r3, descriptors),
              finish |-> [err |-> r3.err, descriptors |-> r3.descriptors],
              super_descriptor |-> r3.super_descriptor]
        ELSE With(find_junit4_tests(ctx), LAMBDA r4 :
              [pending |-> junit3_yields(ctx, r3, descriptors)
                              \o junit4_yields(r4, r3.descriptors),
               finish |-> [err |-> r4.err, descriptors |-> r3.descriptors],
               super_descriptor |-> r3.super_descriptor]))

\* parse run on from where the item at hand has nothing left to yield
\* (parse_resume) and from the head of the loop over the items (parse_enter),
\* up to the next yield, the end of the loop or an exception.  The file of a
\* parser is opened by ByteStream.__init__, the first statement of
\* DexParser.__init__, and closed by parser.close(), the statement after the
\* two loops; the finally clause removes the directory and closes nothing.
RECURSIVE parse_enter(_, _, _)
RECURSIVE parse_resume(_, _)
parse_resume(st, g) ==
    IF g.pending # <<>>
    THEN [st |-> [st EXCEPT !.descriptors = Head(g.pending).descriptors],
          g |-> [g EXCEPT !.state = "suspended", !.yielded = Head(g.pending).test,
                          !.pending = Tail(@)]]
    ELSE IF g.finish.err # NoError
    THEN [st |-> [st EXCEPT !.descriptors = g.finish.descriptors],
          g |-> [g EXCEPT !.state = "raised", !.err = g.finish.err, !.yielded = <<>>]]
    ELSE parse_enter([st EXCEPT !.descriptors = g.finish.descriptors,
                                !.handles[g.handle].open = FALSE],
                     g, g.item + 1)

parse_enter(st, g, item) ==
    IF item > Len(g.container)
    THEN [st |-> st,
          g |-> [g EXCEPT !.state = "exhausted", !.item = item, !.yielded = <<>>]]
    ELSE With(DexParser_init(DexFile(g.container[item])), LAMBDA r :
         With([st EXCEPT !.handles = Append(@, [path |-> g.container[item],
                                                open |-> TRUE])], LAMBDA opened :
         IF r.err # NoError
         THEN [st |-> opened,
               g |-> [g EXCEPT !.state = "raised", !.err = r.err, !.item = item,
                               !.handle = Len(opened.handles), !.yielded = <<>>]]
         ELSE With([opened EXCEPT
                       !.parsers = Append(@,
                           [file |-> g.container[item],
                            package_filters |-> g.package_names,
                            super_descriptor |->
                                [i \in 1..Len(DexFile(g.container[item]).class_defs)
                                    |-> <<>>]]),
                       !.type_ids = Len(st.parsers) + 1,
                       !.string_ids = Len(st.parsers) + 1], LAMBDA made :
              With(parse_item([parsers |-> made.parsers, self |-> Len(made.parsers),
                               type_ids |-> made.type_ids,
                               string_ids |-> made.string_ids],
                              made.descriptors), LAMBDA scans :
                parse_resume(
                    [made EXCEPT !.parsers[Len(made.parsers)].super_descriptor
                                     = scans.super_descriptor],
                    [g EXCEPT !.item = item, !.handle = Len(made.handles),
                              !.pending = scans.pending,
                              !.finish = scans.finish])))))

\* next() of the generator of parse: the first runs the function from its
\* top, the others from the yield it is suspended at.
parse_next(st, g) ==
    IF g.state = "created" THEN parse_enter(st, g, 1) ELSE parse_resume(st, g)

(***************************************************************************)
(* Specification SpecParse: calls of DexParser.parse, one generator at a   *)
(* time, taken result by result by a consumer that may stop before the     *)
(* end.                                                                    *)
(***************************************************************************)
MaxHandles == 3

\* The .dex items of the containers parsed.
Containers ==
    {<<>>, <<"K1">>, <<"K2">>, <<"K1", "K2">>, <<"bad_dex">>, <<"K2", "bad_tag">>,
     <<"lost_class_data">>, <<"cut_class_data">>, <<"lost_method", "K1">>}

InitParse ==
    /\ parsers = <<>>
    /\ Item_type_ids = 0
    /\ Item_string_ids = 0
    /\ junit3_descriptors = JUNIT3_DEFAULT_DESCRIPTORS
    /\ runs = <<>>
    /\ stream = <<>>
    /\ result = NoResult
    /\ ScopeIdle
    /\ AxmlIdle
    /\ TablesIdle
    /\ handles = <<>>
    /\ generator = NoGenerator

Finished(g) == g.state \in {"exhausted", "raised", "closed"}

\* DexParser.parse(container, package_names): calling a generator function
\* runs none of it.
StartParse(container, package_names) ==
    /\ generator = NoGenerator \/ Finished(generator)
    /\ Len(handles) + Len(container) <= MaxHandles
    /\ generator' = [state |-> "created", container |-> container,
                     package_names |-> package_names, item |-> 0, handle |-> 0,
                     pending |-> <<>>, finish |-> [err |-> NoError, descriptors |-> <<>>],
                     yielded |-> <<>>, err |-> NoError]
    /\ UNCHANGED <<scopeVars, pureVars, dexVars, document, axml, tables, readers, handles>>

\* What a resumption leaves behind.
Resumed(r) ==
    /\ parsers' = r.st.parsers
    /\ Item_type_ids' = r.st.type_ids
    /\ Item_string_ids' = r.st.string_ids
    /\ junit3_descriptors' = r.st.descriptors
    /\ handles' = r.st.handles
    /\ generator' = r.g

\* next(generator)
Resume ==
    /\ generator.state \in {"created", "suspended"}
    /\ Resumed(parse_next([parsers |-> parsers, type_ids |-> Item_type_ids,
                           string_ids |-> Item_string_ids,
                           descriptors |-> junit3_descriptors, handles |-> handles],
                          generator))
    /\ UNCHANGED <<scopeVars, pureVars, runs, document, axml, tables, readers>>

\* The consumer stops taking results: generator.close(), or the generator is
\* dropped.  GeneratorExit is raised at the yield the generator is suspended
\* at and the finally clause runs; a generator that has not started runs
\* nothing.
Abandon ==
    /\ generator.state \in {"created", "suspended"}
    /\ generator' = [generator EXCEPT !.state = "closed", !.pending = <<>>,
                                      !.yielded = <<>>]
    /\ UNCHANGED <<scopeVars, pureVars, dexVars, document, axml, tables, readers, handles>>

NextParse ==
    \/ \E container \in Containers, package_names \in FilterChoices :
          StartParse(container, package_names)
    \/ Resume
    \/ Abandon

SpecParse == InitParse /\ [][NextParse]_vars

\* C20: every byte source opened for a decode is closed when the decode
\* finishes, on every way of finishing.  Of DexParser.parse: once the
\* generator has finished, by exhausting the container, by an exception of a
\* header validation or of a scan, or by the consumer stopping, no file it
\* opened is open.
C20_ClosedWhenFinished ==
    Finished(generator) => \A h \in DOMAIN handles : ~handles[h].open

\* The ways of finishing taken one by one: what holds is the first.
C20_ClosedWhenExhausted ==
    generator.state = "exhausted" =>
        \A h \in DOMAIN handles : h > Len(handles) - Len(generator.container)
                                      => ~handles[h].open

C20_ClosedWhenRaised ==
    generator.state = "raised" => ~handles[generator.handle].open

C20_ClosedWhenAbandoned ==
    (generator.state = "closed" /\ generator.handle # 0)
        => ~handles[generator.handle].open

\* Of AXMLParser: once the constructor has returned or raised, the file of
\* the manifest is closed.
C20_AxmlClosed ==
    axml.op = "AXMLParser" => \A h \in DOMAIN handles : ~handles[h].open


(***************************************************************************)
(* Specification SpecChunks: AXMLParser constructed over documents whose   *)
(* header words are right or wrong in every combination and whose token    *)
(* stream has namespace tokens among its tags.                             *)
(***************************************************************************)
MaxTokens == 3

\* A namespace token: the envelope and the two words NSRecord reads.
StartNs == [first_word |-> START_NS, name |-> "", attributes |-> <<>>,
            prefix |-> 1, uri |-> 2]

EndNs == [first_word |-> END_NS, name |-> "", attributes |-> <<>>,
          prefix |-> 1, uri |-> 2]

ChunkHeaders ==
    {[tag |-> tag, string_tag |-> string_tag, resource_tag |-> resource_tag,
      resource_chunk_size |-> resource_chunk_size] :
        tag \in {EXPECTED_TAG, 0},
        string_tag \in {EXPECTED_STRING_TAG, EXPECTED_TAG},
        resource_tag \in {EXPECTED_RESOURCE_TAG, EXPECTED_STRING_TAG},
        resource_chunk_size \in {8, 12, 6}}

ChunkTokens ==
    {StartNs, EndNs,
     StartTag("manifest", <<TextAttr("package", PackageText)>>),
     StartTag("uses-permission", <<TextAttr("name", Permission1)>>),
     EndTag("manifest")}

ChunkDocuments(longest) ==
    {[header |-> header, tokens |-> body \o <<EndDoc>>] :
        header \in ChunkHeaders, body \in SeqUpTo(ChunkTokens, longest)}

InitChunks ==
    /\ document \in ChunkDocuments(MaxTokens)
    /\ axml = NoAxml
    /\ result = NoResult
    /\ stream = <<>>
    /\ ScopeIdle
    /\ DexIdle
    /\ TablesIdle
    /\ ParseIdle

NextChunks == AxmlConstruct \/ Get_package_name

SpecChunks == InitChunks /\ [][NextChunks]_vars

\* The first of the four checks of the header that a header does not pass, in
\* the order the claim gives them, 0 if it passes all: the XML-chunk tag, the
\* string-pool tag, the resource-map tag, the size of the resource map.
FirstBad(header) ==
    IF header.tag # 524291 THEN 1
    ELSE IF header.string_tag # 1835009 THEN 2
    ELSE IF header.resource_tag # 524672 THEN 3
    ELSE IF \A n \in 0..header.resource_chunk_size : 4 * n # header.resource_chunk_size
        THEN 4
    ELSE 0

\* The words of the header read when a check is made: the tag is the first
\* word, the string-pool tag the third, the resource-map tag and its size
\* the tenth and eleventh.
WordsReadAt(check) ==
    CASE check = 1 -> 1 [] check = 2 -> 3 [] check = 3 -> 10 [] OTHER -> 11

Constructed_Any == axml.op = "AXMLParser"

\* C21: construction fails with a format error if the first word is not the
\* XML-chunk tag, or the string-pool tag, the resource-map tag or the size
\* of the resource map is wrong; the checks are made in that order, so the
\* failure comes when the words up to the first wrong one have been read and
\* no more; and after it no token has been read and no fact is set.  A
\* header that passes the four checks does not make construction fail before
\* the tokens.
C21_HeaderChecks ==
    Constructed_Any =>
        IF FirstBad(document.header) # 0
        THEN /\ IsFormatError(axml.err)
             /\ axml.header_read = WordsReadAt(FirstBad(document.header))
             /\ axml.tokens_read = 0
             /\ axml.tags = <<>>
             /\ axml.permissions = <<>>
             /\ ~axml.has_package_name
        ELSE /\ axml.header_read = 11
             /\ axml.tokens_read >= 1

\* Construction has failed at each of the four checks, once with a later
\* word wrong too.
C21_Witness ==
    /\ Constructed_Any
    /\ FirstBad(document.header) = 3
    /\ document.header.resource_chunk_size = 6
    /\ Len(document.tokens) > 1
    /\ axml.err # NoError

C21_FailedAtSize == Constructed_Any /\ FirstBad(document.header) = 4 /\ axml.err # NoError

C21_FailedAtTag ==
    /\ Constructed_Any
    /\ FirstBad(document.header) = 1
    /\ document.header.string_tag # 1835009
    /\ axml.err # NoError

\* The tokens of the document that stand before its end-of-document token,
\* which is its last.
Body == SubSeq(document.tokens, 1, Len(document.tokens) - 1)

IsNs(token) == token \in {StartNs, EndNs}

\* C22: a start-namespace or end-namespace token is consumed and decoding
\* goes on with the next token; only the end-of-document token stops the
\* loop.  So of a document with a sound header, every token is read, and the
\* tags decoded are the tags of the document, those after an end-namespace
\* token too.
C22_NamespaceTokensPassed ==
    (Constructed_Any /\ FirstBad(document.header) = 0) =>
        /\ axml.err = NoError
        /\ axml.tokens_read = Len(document.tokens)
        /\ Len(axml.tags) = Len(SelectSeq(Body, LAMBDA token : ~IsNs(token)))

\* What holds of the start-namespace token alone.
C22_StartNamespacePassed ==
    (Constructed_Any /\ FirstBad(document.header) = 0
        /\ \A k \in DOMAIN Body : Body[k] # EndNs) =>
        /\ axml.err = NoError
        /\ axml.tokens_read = Len(document.tokens)
        /\ Len(axml.tags) = Len(SelectSeq(Body, LAMBDA token : ~IsNs(token)))

C22_StartNamespaceSeen ==
    /\ Constructed_Any
    /\ FirstBad(document.header) = 0
    /\ \A k \in DOMAIN Body : Body[k] # EndNs
    /\ \E k \in DOMAIN Body : Body[k] = StartNs /\ k < Len(Body)
    /\ Len(axml.tags) = 2


(***************************************************************************)
(* The tree of tags, stated of the tags alone.                             *)
(***************************************************************************)

\* The first end tag met while the first tag is the current tag, where the
\* loop of __init__ stops; one past the last tag if there is none.
RootClosedAt(tags) ==
    With({i \in 2..Len(tags) : ~tags[i].is_start_tag /\ OpenBefore(tags, i) = 0},
         LAMBDA closing :
            IF closing = {} THEN Len(tags) + 1
            ELSE CHOOSE i \in closing : \A j \in closing : i <= j)

\* The start tags before tag i that are not closed before it: those with as
\* many start tags as end tags between them and tag i.
OpenAt(tags, i) ==
    {j \in 1..(i - 1) :
        /\ tags[j].is_start_tag
        /\ Cardinality({k \in (j + 1)..(i - 1) : tags[k].is_start_tag})
              = Cardinality({k \in (j + 1)..(i - 1) : ~tags[k].is_start_tag})}

\* The nearest earlier start tag not yet closed, 0 if there is none.
OpenParent(tags, i) ==
    IF OpenAt(tags, i) = {} THEN 0
    ELSE CHOOSE j \in OpenAt(tags, i) : \A k \in OpenAt(tags, i) : k <= j

IsIncreasing(list) == \A a, b \in DOMAIN list : a < b => list[a] < list[b]

\* C23 as stated: every start tag after the first is appended to the current
\* tag and gets it as parent, every end tag moves current to its parent; so
\* every later start tag has as parent the nearest earlier start tag not yet
\* closed and stands in the children of that parent.
C23_EveryStartTagLinked ==
    Constructed_Axml =>
        \A i \in 2..Len(axml.tags) :
            axml.tags[i].is_start_tag =>
                /\ axml.tree.parent[i] # 0
                /\ axml.tree.parent[i] = OpenParent(axml.tags, i)
                /\ \E n \in DOMAIN axml.tree.children[axml.tree.parent[i]] :
                      axml.tree.children[axml.tree.parent[i]][n] = i

\* C23: tree reconstruction keeps one current open tag, starting at the
\* first tag.  Up to the first end tag met while the first tag is current,
\* where the reconstruction stops, every start tag after the first has as
\* parent the nearest earlier start tag not yet closed, and an end tag moves
\* current to its parent; the tags after the stop are not linked.  The
\* children of a tag are the start tags that have it as parent, in decode
\* order, so a tag is in at most one list and once in it, and no end tag is
\* in a list or has a parent.  The documents being closed under prefixes,
\* this holds after every step of the loop.
C23_TreeOfOpenTags ==
    Constructed_Axml =>
        /\ \A i \in 2..Len(axml.tags) :
              axml.tree.parent[i] =
                  IF axml.tags[i].is_start_tag /\ i < RootClosedAt(axml.tags)
                  THEN OpenParent(axml.tags, i) ELSE 0
        /\ \A i \in 2..Len(axml.tags) :
              (axml.tags[i].is_start_tag /\ i < RootClosedAt(axml.tags))
                  => OpenParent(axml.tags, i) # 0
        /\ \A p \in DOMAIN axml.tags :
              /\ IsIncreasing(axml.tree.children[p])
              /\ ListSet(axml.tree.children[p])
                    = {i \in 2..Len(axml.tags) : axml.tree.parent[i] = p}
        /\ axml.tags # <<>> => axml.tree.parent[1] = 0

\* A tree with a grandchild of the first tag followed, after its end tag, by
\* a second child of the same parent.
C23_Witness ==
    /\ Constructed_Axml
    /\ RootClosedAt(axml.tags) > Len(axml.tags)
    /\ \E p \in 2..Len(axml.tags) :
          /\ axml.tree.parent[p] = 1
          /\ Len(axml.tree.children[p]) = 2

\* The first tag is closed and a start tag follows.
C23_TagAfterRootClosed ==
    /\ Constructed_Axml
    /\ \E i \in 2..Len(axml.tags) :
          axml.tags[i].is_start_tag /\ i > RootClosedAt(axml.tags)


(***************************************************************************)
(* ByteStream.IterReader over EncodedMethod items, the class of the        *)
(* readers ClassDefData makes for its methods (FORMAT "*", so _byte_size   *)
(* is None).  A reader is its _count, _index, _offset (None or a number)   *)
(* and _curr_offset.                                                       *)
(***************************************************************************)

\* BaseCollectionReader.__init__ with the cursor of the stream at cursor
IterReader_init(cursor, count, offset) ==
    [count |-> count, index |-> 0, offset |-> offset,
     curr_offset |-> IF offset.present THEN offset.value ELSE cursor]

\* next() that decodes where the cursor of the stream stands.
IterReader_next_at_cursor(bytes, cursor, reader) ==
    IF reader.index >= reader.count
    THEN [err |-> "StopIteration", value |-> 0, reader |-> reader, pos |-> cursor]
    ELSE With(EncodedMethod_init(bytes, cursor), LAMBDA elem :
         With(IF reader.offset.present THEN cursor ELSE elem.pos, LAMBDA left :
            IF elem.err # NoError
            THEN [err |-> elem.err, value |-> 0, reader |-> reader, pos |-> left]
            ELSE [err |-> NoError, value |-> elem.index_diff,
                  reader |-> [reader EXCEPT !.curr_offset = elem.pos, !.index = @ + 1],
                  pos |-> left]))

\* IterReader.next with the cursor of the stream at cursor: the exception
\* raised, if any, the index_diff of the element returned, the reader
\* afterwards and where the cursor is left, which is where it was if the
\* reader was made with an offset (the finally clause) and where the decode
\* stopped if not.
IterReader_next(bytes, cursor, reader) ==
    IF reader.index >= reader.count
    THEN [err |-> "StopIteration", value |-> 0, reader |-> reader, pos |-> cursor]
    ELSE With(EncodedMethod_init(bytes, reader.curr_offset), LAMBDA elem :
         With(IF reader.offset.present THEN cursor ELSE elem.pos, LAMBDA left :
            IF elem.err # NoError
            THEN [err |-> elem.err, value |-> 0, reader |-> reader, pos |-> left]
            ELSE [err |-> NoError, value |-> elem.index_diff,
                  reader |-> [reader EXCEPT !.curr_offset = elem.pos, !.index = @ + 1],
                  pos |-> left]))

(***************************************************************************)
(* Specification SpecClassData: the class data of one class, decoded as    *)
(* find_method_names does, ClassDefData at offset 0 and then the reader of *)
(* the virtual methods item by item.                                       *)
(***************************************************************************)
MaxVirtual == 2

\* An encoded field and an encoded method: runs of two and of three LEB128
\* values.
FieldRecord == <<1, 2>>

DirectRecord == <<3, 1, 1>>

VirtualRecords == {<<0, 1, 0>>, <<1, 1, 0>>, <<2, 1, 0>>}

Padding == {<<>>, <<0, 0, 0, 0, 0, 0, 0, 0>>}

\* static_fields_size, instance_fields_size, direct_methods_size and
\* virtual_methods_size, then the records they count, then what follows the
\* class data in the file.
ClassDataSources(most) ==
    {<<s, i, d, Len(virtual)>> \o Flatten([k \in 1..(s + i) |-> FieldRecord])
        \o Flatten([k \in 1..d |-> DirectRecord]) \o Flatten(virtual) \o after :
        s \in 0..1, i \in 0..1, d \in 0..1,
        virtual \in SeqUpTo(VirtualRecords, most), after \in Padding}

InitClassData ==
    /\ stream \in ClassDataSources(MaxVirtual)
    /\ pos = 0
    /\ scopes = <<>>
    /\ exited = NoExit
    /\ raising = FALSE
    /\ result = NoResult
    /\ readers = <<>>
    /\ tables = <<>>
    /\ DexIdle
    /\ AxmlIdle
    /\ ParseIdle

\* The with block of find_method_names for a class whose class_data_offset
\* is 0: of the four readers ClassDefData makes, the one kept here is
\* virtual_methods, the one find_method_names iterates.  The block's
\* ContiguousReader puts the cursor back where it was.
Do_ClassDefData ==
    /\ readers = <<>>
    /\ result = NoResult
    /\ With(ClassDefData_init(stream, 0), LAMBDA class_data :
          /\ result' = [op |-> "ClassDefData", err |-> class_data.err, value |-> 0]
          /\ readers' = IF class_data.err # NoError THEN <<>>
                        ELSE <<IterReader_init(class_data.virtual_methods,
                                               class_data.virtual_methods_size, Absent)>>)
    /\ UNCHANGED <<scopeVars, stream, dexVars, document, axml, tables, handles, generator>>

\* ByteStream.IterReader(bytestream, DexParser.EncodedMethod, offset, count)
MakeIterReader(offset, count) ==
    /\ readers = <<>>
    /\ result = NoResult
    /\ result' = [op |-> "IterReader", err |-> NoError, value |-> 0]
    /\ readers' = <<IterReader_init(pos, count, offset)>>
    /\ UNCHANGED <<scopeVars, stream, dexVars, document, axml, tables, handles, generator>>

\* What next() leaves behind.
Advanced(r) ==
    /\ result' = [op |-> "next", err |-> r.err, value |-> r.value]
    /\ readers' = <<r.reader>>
    /\ pos' = r.pos

\* next(readers[1])
IterNext ==
    /\ readers # <<>>
    /\ Advanced(IterReader_next(stream, pos, readers[1]))
    /\ UNCHANGED <<scopes, exited, raising, stream, dexVars, document, axml, tables,
                   handles, generator>>

\* iter(readers[1]): __iter__ returns the reader itself.
IterAgain ==
    /\ readers # <<>>
    /\ result' = [op |-> "iter", err |-> NoError, value |-> 0]
    /\ UNCHANGED <<scopeVars, stream, dexVars, restVars>>

\* bytestream.seek(p) by another user of the stream
SeekStream(p) ==
    /\ readers # <<>>
    /\ pos' = p
    /\ result' = [op |-> "seek", err |-> NoError, value |-> 0]
    /\ UNCHANGED <<scopes, exited, raising, stream, dexVars, restVars>>

NextClassData == Do_ClassDefData \/ IterNext

SpecClassData == InitClassData /\ [][NextClassData]_vars

(***************************************************************************)
(* Specification SpecIter: readers made over the same bytes with and       *)
(* without an offset and asked for their items, while the cursor of the    *)
(* stream is moved by its other users between the calls.                   *)
(***************************************************************************)
NextIter ==
    \/ \E offset \in {Absent, Some(4)}, count \in 0..(MaxVirtual + 1) :
          MakeIterReader(offset, count)
    \/ IterNext
    \/ IterAgain
    \/ \E p \in {0, 7} : SeekStream(p)

SpecIter == InitClassData /\ [][NextIter]_vars

\* What the class data declares, read as the format lays it out: the four
\* sizes, then s + i encoded fields of two LEB128 values each, then d direct
\* methods of three each, and there the v virtual methods begin.
DeclaredSizes(bytes) == read_leb128s(bytes, 0, 4)

DeclaredVirtualStart(bytes) ==
    With(DeclaredSizes(bytes), LAMBDA sizes :
        read_leb128s(bytes, sizes.pos,
                     2 * (sizes.value[1] + sizes.value[2]) + 3 * sizes.value[3]).pos)

\* The index_diff of the k-th virtual method declared.
DeclaredVirtual(bytes, k) ==
    read_leb128s(bytes, DeclaredVirtualStart(bytes), 3 * k).value[3 * k - 2]

\* C24: for every s, i, d and v the virtual methods are decoded from the
\* position right after the s + i encoded fields and the d direct methods:
\* the reader find_method_names iterates counts v items and, if there is an
\* item to read, starts there; every item it yields is the next virtual
\* method declared, and it yields all v of them before it is exhausted.
C24_VirtualMethodsAfterRecords ==
    /\ (result.op = "ClassDefData" /\ result.err = NoError) =>
          /\ readers[1].count = DeclaredSizes(stream).value[4]
          /\ readers[1].count > 0 => readers[1].curr_offset = DeclaredVirtualStart(stream)
    /\ result.op = "next" =>
          /\ result.err \in {NoError, "StopIteration"}
          /\ result.err = NoError =>
                result.value = DeclaredVirtual(stream, readers[1].index)
          /\ result.err = "StopIteration" =>
                readers[1].index = DeclaredSizes(stream).value[4]

\* What holds: the count of the reader is v, and a class with no virtual
\* method yields nothing.
C24_NoVirtualMethods ==
    /\ (result.op = "ClassDefData" /\ result.err = NoError) =>
          readers[1].count = DeclaredSizes(stream).value[4]
    /\ (result.op = "next" /\ DeclaredSizes(stream).value[4] = 0) =>
          result.err = "StopIteration"


\* What decoding an EncodedMethod at an offset comes to, read from the bytes:
\* three LEB128 values one after the other.
ItemAt(bytes, offset) == read_leb128s(bytes, offset, 3)

\* A step that is a call of next() on the reader.
IsNextCall == readers # <<>> /\ readers' # <<>> /\ result'.op = "next"

\* C27: an IterReader built with count n is forward-only and single-pass.
\* No step takes its index back, changes its count or takes the index past
\* the count, so it yields at most n items and is never restarted.  A call
\* of next() on a reader that has yielded n items signals exhaustion and
\* leaves the reader as it is.  Otherwise the item is decoded at the stored
\* offset, which is where the decode of the item before ended, wherever the
\* cursor of the stream stands: if the decode succeeds the item is returned,
\* the index grows by one and the stored offset becomes the end of the
\* decode; if it fails, the failure is raised and index and stored offset
\* are as before.
C27_ForwardOnlySinglePass ==
    [][/\ (readers # <<>> /\ readers' # <<>>) =>
             /\ readers'[1].count = readers[1].count
             /\ readers'[1].index >= readers[1].index
             /\ readers'[1].index <= readers'[1].count
             /\ readers'[1].index = readers[1].index
                    => readers'[1].curr_offset = readers[1].curr_offset
       /\ IsNextCall =>
             IF readers[1].index >= readers[1].count
             THEN result'.err = "StopIteration" /\ readers' = readers
             ELSE IF ItemAt(stream, readers[1].curr_offset).err = NoError
             THEN /\ result'.err = NoError
                  /\ result'.value = ItemAt(stream, readers[1].curr_offset).value[1]
                  /\ readers'[1].index = readers[1].index + 1
                  /\ readers'[1].curr_offset = ItemAt(stream, readers[1].curr_offset).pos
             ELSE /\ result'.err = ItemAt(stream, readers[1].curr_offset).err
                  /\ readers' = readers]_vars

\* A reader of two or more items has yielded them all, the cursor of the
\* stream not being where the reader's offset is, and the call after that
\* has signalled exhaustion.
C27_Witness ==
    /\ readers # <<>>
    /\ readers[1].count >= 2
    /\ readers[1].index = readers[1].count
    /\ pos # readers[1].curr_offset
    /\ result.op = "next"
    /\ result.err = "StopIteration"

\* A call of next() has failed in its decode after an item was yielded.
C27_FailedDecode ==
    /\ readers # <<>>
    /\ readers[1].index >= 1
    /\ readers[1].index < readers[1].count
    /\ result.op = "next"
    /\ result.err \notin {NoError, "StopIteration"}


\* The source is a value whose type tag is array or annotation, with a byte
\* of zero after the leading byte: an array of no values, or an annotation
\* of type index 0 with more bytes to follow for its count.
IsNestedValue ==
    /\ Len(stream) >= 3
    /\ stream[1] % 32 \in {28, 29}
    /\ stream[2] = 0
    /\ stream[3] = 0

\* C25: decoding an EncodedValue whose type tag is array or annotation
\* succeeds and yields the nested item decoded from the bytes after the
\* leading byte, an array of size 0 or an annotation with no elements here.
C25_NestedItemsDecoded ==
    (result.op = "EncodedValue" /\ result.start = 0 /\ IsNestedValue) =>
        /\ result.err = NoError
        /\ result.pos >= 2


(***************************************************************************)
(* Specification SpecSuper: parsers of files with classes that have no     *)
(* superclass, the superclass queries of ClassDefItem made on their        *)
(* classes, and the JUnit3 discovery.                                      *)
(***************************************************************************)

\* The descriptor sets a caller passes to has_direct_super_class.
DescriptorSets == {{}, {JUNIT3_DEFAULT_DESCRIPTORS[1]}, {<<"L", "a", "/", "A", ";">>}}

\* parsers[p]._ids[ClassDefItem][c].super_descriptor()
Get_super_descriptor(p, c) ==
    /\ With(super_descriptor(Context(p), c), LAMBDA r :
          /\ result' = [op |-> "super_descriptor", parser |-> p, class |-> c,
                        err |-> r.err, value |-> r.value]
          /\ parsers' = IF r.err # NoError THEN parsers
                        ELSE [parsers EXCEPT ![p].super_descriptor[c + 1] = r.value])
    /\ UNCHANGED <<restVars, scopeVars, stream, Item_type_ids, Item_string_ids,
                   junit3_descriptors, runs>>

\* parsers[p]._ids[ClassDefItem][c].has_direct_super_class(descriptors)
Get_has_direct_super_class(p, c, descriptors) ==
    /\ With(has_direct_super_class(Context(p), c, descriptors), LAMBDA r :
          /\ result' = [op |-> "has_direct_super_class", parser |-> p, class |-> c,
                        err |-> r.err, value |-> r.value]
          /\ parsers' = [parsers EXCEPT ![p].super_descriptor[c + 1] = r.cached])
    /\ UNCHANGED <<restVars, scopeVars, stream, Item_type_ids, Item_string_ids,
                   junit3_descriptors, runs>>

NextSuper ==
    \/ \E file \in RootedFiles, package_names \in FilterChoices :
          Construct(file, package_names)
    \/ \E p \in DOMAIN parsers : Junit3Default(p)
    \/ \E p \in DOMAIN parsers : \E c \in 0..(Len(DexFile(parsers[p].file).class_defs) - 1) :
          Get_super_descriptor(p, c)
    \/ \E p \in DOMAIN parsers : \E c \in 0..(Len(DexFile(parsers[p].file).class_defs) - 1) :
          \E descriptors \in DescriptorSets : Get_has_direct_super_class(p, c, descriptors)

SpecSuper == InitDex /\ [][NextSuper]_vars

\* Class c of parser p has no superclass.
NoSuperclass(p, c) == DexFile(parsers[p].file).class_defs[c + 1].super_class_index < 0

\* The last query was made on a class without a superclass.
OfRootClass(op) == result.op = op /\ NoSuperclass(result.parser, result.class)

\* The classes without a superclass in the file of a run.
RootClasses(run) ==
    {c \in 0..(Len(FileOfRun(run).class_defs) - 1) :
        FileOfRun(run).class_defs[c + 1].super_class_index < 0}

\* The second half of C26: has_direct_super_class of a class without a
\* superclass is false for every descriptor set and does not fail, and in a
\* run of find_junit3_tests such a class is not selected by the scan, is
\* not among the classes the run comes to, and is not the class the scan of
\* find_classes_directly_inherited_from fails at.
C26_RootClassNeverYielded ==
    /\ OfRootClass("has_direct_super_class") =>
          result.err = NoError /\ result.value = FALSE
    /\ \A i \in DOMAIN runs : \A c \in RootClasses(runs[i]) :
          /\ c + 1 \in DOMAIN runs[i].scan => ~runs[i].scan[c + 1].selected
          /\ \A k \in DOMAIN runs[i].classes : runs[i].classes[k].class # c
          /\ (runs[i].err # NoError /\ runs[i].classes = <<>>) => Len(runs[i].scan) # c

\* C26: for a ClassDef with super_class_index < 0, super_descriptor is
\* absent rather than a failure, has_direct_super_class is false for every
\* descriptor set, and the class is never yielded by
\* find_classes_directly_inherited_from and never makes the scan fail.
C26_NoSuperclassIsAbsent ==
    /\ OfRootClass("super_descriptor") => result.err = NoError /\ result.value = <<>>
    /\ C26_RootClassNeverYielded

\* A run over a file whose first class has no superclass has come to its
\* second class, has_direct_super_class having been asked of the first.
C26_RootClassScanned ==
    /\ OfRootClass("has_direct_super_class")
    /\ \E i \in DOMAIN runs :
          /\ RootClasses(runs[i]) # {}
          /\ Len(runs[i].scan) = Len(FileOfRun(runs[i]).class_defs)


(***************************************************************************)
(* Specification SpecText: ContiguousReader.read_string and                *)
(* ByteStream.parse_descriptor over sources whose text is shorter than,    *)
(* as long as and longer than whole chunks.                                *)
(***************************************************************************)

\* The number of bytes read_string asks of the file at a time.
CHUNK == 128

\* The longest text of a source, in chunks.
MaxChunks == 2

\* bytes.decode('latin-1'): one character per byte, the character's code
\* point being the byte's value.
decode_latin_1(bytes) == [i \in DOMAIN bytes |-> bytes[i]]

\* text.split(chr(0))[0]: the characters before the first character 0.
split_chr0_first(text) ==
    LET found == {i \in DOMAIN text : text[i] = 0}
    IN  IF found = {} THEN text
        ELSE SubSeq(text, 1, (CHOOSE i \in found : \A j \in found : i <= j) - 1)

\* self._file.read(n) with the file at position at.
file_read(bytes, at, n) == SubSeq(bytes, at + 1, Min(at + n, Len(bytes)))

\* The loop of read_string: byte_data is the chunk read last, at the file
\* position after it, text the result so far.
RECURSIVE read_string_loop(_, _, _, _)
read_string_loop(bytes, byte_data, at, text) ==
    IF byte_data = <<>> THEN [value |-> text, file_pos |-> at]
    ELSE With(split_chr0_first(decode_latin_1(byte_data)), LAMBDA delta :
            IF Len(byte_data) = CHUNK /\ Len(delta) = CHUNK
            THEN read_string_loop(bytes, file_read(bytes, at, CHUNK),
                                  at + Len(file_read(bytes, at, CHUNK)), text \o delta)
            ELSE [value |-> text \o delta, file_pos |-> at])

\* read_string that leaves the file where the last read left it.
read_string_no_seek(bytes, p) ==
    With(read_string_loop(bytes, file_read(bytes, p, CHUNK),
                          p + Len(file_read(bytes, p, CHUNK)), <<>>), LAMBDA r :
        [err |-> NoError, value |-> r.value, pos |-> r.file_pos])

\* ContiguousReader.read_string with the file at position p.
read_string(bytes, p) ==
    With(read_string_loop(bytes, file_read(bytes, p, CHUNK),
                          p + Len(file_read(bytes, p, CHUNK)), <<>>), LAMBDA r :
        [err |-> NoError, value |-> r.value, pos |-> p + Len(r.value)])

\* ByteStream.parse_descriptor on the bytes of a source, for a string id
\* whose data_offset is offset, with the stream at position p: cursor is the position the reader is at
\* when read_string returns, pos the one the stream is left at.
parse_descriptor_bytes(bytes, p, offset) ==
    With(ContiguousReader_init(p, offset), LAMBDA scope :
      With(read_leb128(bytes, ContiguousReader_enter(scope, p)), LAMBDA unused :
        IF unused.err # NoError
        THEN [err |-> unused.err, value |-> <<>>, cursor |-> unused.pos,
              pos |-> ContiguousReader_exit(scope, unused.pos)]
        ELSE With(read_string(bytes, unused.pos), LAMBDA r :
                [err |-> NoError, value |-> r.value, cursor |-> r.pos,
                 pos |-> ContiguousReader_exit(scope, r.pos)])))

\* A text of n bytes, none of them zero, that starts after byte first.
TextBytes(n, first) == [i \in 1..n |-> 1 + ((first + i) % 255)]

\* The lengths of the texts: none, one byte, and one byte less than, exactly
\* and one byte more than each number of whole chunks.
TextLengths(most) == {0, 1} \cup {k * CHUNK + d : k \in 1..most, d \in {-1, 0, 1}}

\* What follows a text: the end of the source, or a zero byte and then the
\* end, a byte, or a byte and another zero.
Endings == {<<>>, <<0>>, <<0, 66>>, <<0, 66, 0>>}

\* The sources: a one-byte LEB128 number, a text and an ending.
TextSources(most) ==
    {<<5>> \o TextBytes(n, first) \o ending :
        n \in TextLengths(most), first \in {64, 200}, ending \in Endings}

\* The positions a caller moves the stream to.
StartPositions == {0, 1, 2}

InitText ==
    /\ stream \in TextSources(MaxChunks)
    /\ pos = 0
    /\ scopes = <<>>
    /\ exited = NoExit
    /\ raising = FALSE
    /\ result = NoResult
    /\ readers = <<>>
    /\ tables = <<>>
    /\ DexIdle
    /\ AxmlIdle
    /\ ParseIdle

\* bytestream.seek(p)
SeekText(p) ==
    /\ pos' = p
    /\ result' = [op |-> "seek", err |-> NoError, start |-> pos]
    /\ UNCHANGED <<scopes, exited, raising, stream, dexVars, restVars>>

\* ContiguousReader(bytestream).read_string()
Do_read_string ==
    /\ With(read_string(stream, pos), LAMBDA r :
          /\ result' = [op |-> "read_string", err |-> r.err, value |-> r.value,
                        start |-> pos]
          /\ pos' = r.pos)
    /\ UNCHANGED <<scopes, exited, raising, stream, dexVars, restVars>>

\* bytestream.parse_descriptor(string_id)
Do_parse_descriptor(offset) ==
    /\ With(parse_descriptor_bytes(stream, pos, offset), LAMBDA r :
          /\ result' = [op |-> "parse_descriptor", err |-> r.err, value |-> r.value,
                        start |-> offset, cursor |-> r.cursor]
          /\ pos' = r.pos)
    /\ UNCHANGED <<scopes, exited, raising, stream, dexVars, restVars>>

NextText ==
    \/ \E p \in StartPositions : SeekText(p)
    \/ Do_read_string
    \/ \E offset \in {0, 1} : Do_parse_descriptor(offset)

SpecText == InitText /\ [][NextText]_vars

\* The bytes of a source from position p up to, not including, the first
\* zero byte, or up to the end of the source if there is none.
UpToZero(bytes, p) ==
    LET zeros == {i \in (p + 1)..Len(bytes) : bytes[i] = 0}
        end == IF zeros = {} THEN Len(bytes)
               ELSE CHOOSE i \in zeros : \A j \in zeros : i <= j
        n == IF zeros # {} THEN end - 1 - p ELSE IF end > p THEN end - p ELSE 0
    IN  [i \in 1..n |-> bytes[p + i]]

\* C28: read_string started at position p returns the bytes from p up to,
\* not including, the first zero byte, or up to the end of the source if
\* there is none, one character per byte, whatever the length of the text,
\* and leaves the cursor at p plus the length of the text returned.  The
\* same holds of the text parse_descriptor returns, read after the LEB128
\* number at the string's offset.
C28_ReadStringUpToZero ==
    /\ result.op = "read_string" =>
          /\ result.err = NoError
          /\ result.value = UpToZero(stream, result.start)
          /\ pos = result.start + Len(result.value)
    /\ (result.op = "parse_descriptor" /\ result.err = NoError) =>
          /\ result.value = UpToZero(stream, result.cursor - Len(result.value))
          /\ result.cursor - Len(result.value) = read_leb128(stream, result.start).pos

\* read_string has returned a text of exactly two chunks that a zero byte
\* follows.
C28_Witness ==
    /\ result.op = "read_string"
    /\ Len(result.value) = 2 * CHUNK
    /\ pos < Len(stream)
    /\ stream[pos + 1] = 0

\* read_string has returned a text of exactly one chunk that ends the source.
C28_ChunkAtEnd ==
    /\ result.op = "read_string"
    /\ Len(result.value) = CHUNK
    /\ pos = Len(stream)


(***************************************************************************)
(* Specification SpecFacts: an AXMLParser constructed from a manifest      *)
(* whose root is a manifest tag with up to MaxChildren children, each      *)
(* opened and closed: instrumentation tags with and without                *)
(* handleProfiling and functionalTest, uses-sdk tags with and without      *)
(* their versions, uses-permission tags with and without a name.           *)
(***************************************************************************)
MaxChildren == 3

FalseText == <<"f", "a", "l", "s", "e">>

\* The instrumentation tags: each of handleProfiling and functionalTest
\* missing, true, false, or a resource id as in the manifest of the test.
InstrumentationTags ==
    {StartTag("instrumentation", <<TextAttr("name", <<"r">>)>> \o profiling \o functional) :
        profiling \in {<<>>, <<TextAttr("handleProfiling", TrueText)>>,
                       <<TextAttr("handleProfiling", FalseText)>>,
                       <<ResourceAttr("handleProfiling", 0)>>},
        functional \in {<<>>, <<TextAttr("functionalTest", TrueText)>>,
                        <<TextAttr("functionalTest", FalseText)>>}}

UsesSdkTags ==
    {StartTag("uses-sdk", min \o target) :
        min \in {<<>>, <<ResourceAttr("minSdkVersion", 15)>>},
        target \in {<<>>, <<ResourceAttr("targetSdkVersion", 25)>>}}

UsesPermissionTags ==
    {StartTag("uses-permission", <<TextAttr("name", Permission1)>>),
     StartTag("uses-permission", <<TextAttr("label", Permission2)>>)}

ChildTags == InstrumentationTags \cup UsesSdkTags \cup UsesPermissionTags

\* The tokens of the children: each start tag and its end tag.
RECURSIVE Closed(_)
Closed(children) ==
    IF children = <<>> THEN <<>>
    ELSE <<Head(children), EndTag(Head(children).name)>> \o Closed(Tail(children))

FactDocuments(most) ==
    {[header |-> GoodAxmlHeader,
      tokens |-> <<StartTag("manifest", <<TextAttr("package", PackageText)>>)>>
                     \o Closed(children) \o <<EndTag("manifest"), EndDoc>>] :
        children \in SeqUpTo(ChildTags, most)}

InitFacts ==
    /\ document \in FactDocuments(MaxChildren)
    /\ axml = NoAxml
    /\ result = NoResult
    /\ stream = <<>>
    /\ ScopeIdle
    /\ DexIdle
    /\ TablesIdle
    /\ ParseIdle

NextFacts == AxmlConstruct \/ Get_package_name

SpecFacts == InitFacts /\ [][NextFacts]_vars

\* The last direct child of that name of the manifest's root, 0 for none.
LastChild(name) ==
    IF DirectChildren(DocumentTags, name) = {} THEN 0
    ELSE CHOOSE i \in DirectChildren(DocumentTags, name) :
             \A j \in DirectChildren(DocumentTags, name) : j <= i

\* The attribute of the last instrumentation child has the text true.
InstrumentationSays(key) ==
    attrs_dict_get(DocumentTags[LastChild("instrumentation")].attributes, key) = Some(TrueText)

InstrumentationRead ==
    Constructed_Axml /\ ManifestRooted /\ LastChild("instrumentation") # 0

\* C29: for a manifest with an instrumentation child, handle_profiling is
\* true exactly when the value of handleProfiling is the text true, as
\* functional_test is true exactly when the value of functionalTest is the
\* text true; both are false when the attribute is missing or has any other
\* value.
C29_ProfilingAsFunctionalTest ==
    InstrumentationRead =>
        /\ axml.instrumentation.present
        /\ axml.instrumentation.value.handle_profiling = InstrumentationSays("handleProfiling")
        /\ axml.instrumentation.value.functional_test = InstrumentationSays("functionalTest")

\* The half of C29 about functional_test, and what handle_profiling is
\* instead: false for every manifest.
C29_FunctionalTestOnly ==
    InstrumentationRead =>
        /\ axml.instrumentation.present
        /\ ~axml.instrumentation.value.handle_profiling
        /\ axml.instrumentation.value.functional_test = InstrumentationSays("functionalTest")

\* An instrumentation child with handleProfiling and functionalTest both
\* true has been read.
C29_BothTrueRead ==
    /\ InstrumentationRead
    /\ InstrumentationSays("handleProfiling")
    /\ InstrumentationSays("functionalTest")
    /\ axml.instrumentation.value.functional_test

\* The direct children named uses-permission that have a name attribute.
NamedPermissions ==
    {i \in DirectChildren(DocumentTags, "uses-permission") :
        attrs_dict_get(DocumentTags[i].attributes, "name").present}

\* C30: for every tag tree rooted at a manifest tag the extraction completes
\* without failure whatever attributes the root's direct children carry: a
\* uses-sdk child lacking minSdkVersion or targetSdkVersion, or a
\* uses-permission child lacking name, leaves the fact absent, and the facts
\* of the other children stand.
C30_ExtractionCompletes ==
    (axml.op = "AXMLParser" /\ AxmlDecoded /\ ManifestRooted) =>
        /\ axml.err = NoError
        /\ axml.instrumentation.present = (LastChild("instrumentation") # 0)
        /\ Len(axml.permissions) = Cardinality(NamedPermissions)
        /\ axml.uses_sdk.present =>
              \E i \in DirectChildren(DocumentTags, "uses-sdk") :
                  /\ attrs_dict_get(DocumentTags[i].attributes, "minSdkVersion").present
                  /\ attrs_dict_get(DocumentTags[i].attributes, "targetSdkVersion").present

\* What holds instead: the construction fails exactly when some uses-sdk
\* child lacks a version or some uses-permission child lacks its name.
C30_FailsOnMissingAttribute ==
    (axml.op = "AXMLParser" /\ AxmlDecoded /\ ManifestRooted) =>
        ((axml.err # NoError) <=>
            \/ \E i \in DirectChildren(DocumentTags, "uses-sdk") :
                  \/ ~attrs_dict_get(DocumentTags[i].attributes, "minSdkVersion").present
                  \/ ~attrs_dict_get(DocumentTags[i].attributes, "targetSdkVersion").present
            \/ NamedPermissions # DirectChildren(DocumentTags, "uses-permission"))

====
